---- MODULE Spec2Model ----
(***************************************************************************)
(* Re-Prompt v3.2: the hybrid traceability and confidence scoring engine of *)
(* dev-server.mjs (judge client, circuit breaker, drift detector,           *)
(* confidence scorer) as a state machine.                                   *)
(*                                                                          *)
(* Units.  Similarity scores (0.0 .. 1.0 in the code) are integers in       *)
(* thousandths: 0.70 is 700.  Confidence scores (0 .. 100 in the code) are  *)
(* integers in hundredths: 79.00 is 7900.  Times are milliseconds.          *)
(***************************************************************************)
EXTENDS Integers, Sequences, FiniteSets, TLC

VARIABLES
    now,             \* Date.now()
    circuitBreaker,  \* the process-wide breaker {failures, lastFailure, tripped}
    judgeCache,      \* the process-wide Map cacheKey -> score
    pc,              \* per request slot: where its validation pass stands
    features,        \* per slot: data.core_functional_components, mutated in place
    loc,             \* per slot: the locals of detectDomainDrift
    judgeCall,       \* per slot: the latest llmJudgeSimilarity invocation, as observed
    result,          \* per slot: the ValidationLogic the pass returned
    confIn,          \* the arguments (data, validationLogic) of recomputeConfidence
    confOut,         \* the ConfidenceBreakdown it returned
    enfIn,           \* the arguments (data, validationLogic) of enforceConsistency
    enfOut,          \* the diagnostics (or null) it returned
    rateLimitMap,    \* the process-wide Map ip -> {count, resetAt}
    accepted,        \* observed: per ip and endpoint, requests accepted in the window
    auditLog,        \* the audit entries persisted so far
    httpReq,         \* the HTTP request handled last
    httpRes,         \* the response it was given
    fnIn,            \* the argument of the helper function exercised alone
    fnOut,           \* what it returned, or that it threw
    php,             \* analyze.php: clock, rate-limit file, its lock, the requests
    sinks,           \* db.mjs and metrics.mjs: SQLite handle and rows, metric buffers
    proxy,           \* analyze.php: the cache directory and the request being served
    session          \* engine.js: _session and what the last engine call returned

engineVars == <<now, circuitBreaker, judgeCache, pc, features, loc, judgeCall, result>>
confVars == <<confIn, confOut>>
enfVars == <<enfIn, enfOut>>
httpVars == <<rateLimitMap, accepted, auditLog, httpReq, httpRes>>
fnVars == <<fnIn, fnOut>>
phpVars == <<php>>
sideVars == <<sinks, proxy, session>>
edgeVars == <<httpVars, fnVars, phpVars, sideVars>>
pipelineVars == <<confVars, enfVars, edgeVars>>
vars == <<engineVars, pipelineVars>>

----------------------------------------------------------------------------
(* Bounds of the model *)

BootTime == 1000000      \* Date.now() when the process starts
MaxTicks == 3            \* clock advances explored after boot
MaxShortLen == 2         \* feature lists of every shape up to this length
MaxTail == 1             \* gray features beyond MAX_JUDGE_CALLS_PER_REQ in a list
MaxAssumptions == 11     \* length of data.assumptions_made
MaxParityLen == 2        \* length of the two lists given to enforceConsistency
MaxConcLen == 1          \* length of the feature lists of concurrent requests
MaxEntries == 2          \* entries in a list given to harvestArray
MaxWords == 2            \* words in a text given to the TF-IDF scorer
MaxPhpTicks == 2         \* advances of time() seen by analyze.php
MaxUpstream == 2         \* upstream assumptions of a response given to the drift pass
MaxProxyTicks == 4       \* advances of time() seen by the cache of analyze.php
MaxAnswers == 2          \* fields answered in one engineClarify call
MaxEngineCalls == 5      \* engine calls since the page loaded
MaxSinkOps == 4          \* appends to the audit log and the metric buffers

(* Program constants *)

resetTime == 60000                 \* circuitBreaker.resetTime
windowMs == 60000                  \* checkRateLimit: windowMs
VALIDATE_MIN == 30                 \* RATE_LIMITS.VALIDATE_MIN
ANALYZE_MIN == 30                  \* RATE_LIMITS.ANALYZE_MIN
RATE_LIMIT_MAX == 5                \* analyze.php: requests per IP per window
RATE_LIMIT_WINDOW == 60            \* analyze.php: window in seconds
MAX_Q == 3                         \* engine.js: questions per round
RoundLimit == 3                    \* engineClarify: round >= 3
ProgressDone == 85                 \* engineClarify: progress >= 0.85
CACHE_TTL == 600                   \* analyze.php: cache lifetime in seconds
MaxAttempts == 2                   \* analyze.php: for ($attempt = 1; $attempt <= 2; ...)
EXECUTE_MIN == 10                  \* RATE_LIMITS.EXECUTE_MIN
CONFIDENCE_MIN == 1000             \* THRESHOLDS.CONFIDENCE_MIN (10)
AUDIT_LOG_MAX == 500               \* LIMITS.AUDIT_LOG_MAX
LatencyWindow == 1000              \* recordLatency: length > 1000
ConfidenceWindow == 1000           \* recordConfidence: length > 1000
TripThreshold == 5                 \* tripBreaker: failures >= 5
MAX_JUDGE_CALLS_PER_REQ == 8       \* LIMITS.MAX_JUDGE_CALLS_PER_REQ
TFIDF_TRACEABLE == 700             \* THRESHOLDS.TFIDF_TRACEABLE   (0.70)
TFIDF_SPECULATIVE == 250           \* THRESHOLDS.TFIDF_SPECULATIVE (0.25)
LLM_TRACEABLE == 600               \* THRESHOLDS.LLM_TRACEABLE (0.60)
LLM_ASSUMPTION == 400              \* THRESHOLDS.LLM_ASSUMPTION (0.40)
JudgeTraceable == 700              \* finalScore >= 0.7 in detectDomainDrift
JudgeAssumption == 400             \* finalScore >= 0.4 in detectDomainDrift
USE_LLM_JUDGE == TRUE              \* FEATURES.USE_LLM_JUDGE

WeightIC == 30                     \* 0.3 * IC
WeightDC == 30                     \* 0.3 * DC
WeightRC == 20                     \* 0.2 * RC
WeightLC == 20                     \* 0.2 * LC
ConsistencyPenalty == 1500         \* LC - 15 when the check is not 'PASS'
DcPenalty == 1000                  \* LC - 10 when DC < 75
DcFloor == 7500                    \* DC < 75
UnitCost == 250                    \* assumptions.length * 2.5
PenaltyCap == 2500                 \* Math.min(25, ...)
DefaultIC == 6000                  \* input_clarity?.score ?? 60
DefaultDC == 5000                  \* domain_consistency_computed ?? 50
DefaultLC == 10000                 \* logical_coherence?.score ?? 100
ScoreMax == 10000                  \* the 100 of Math.min(100, ...)

NullScore == -1                    \* the JS null of {score: null, ...}
Absent == -1000000                 \* a null or undefined operand of ??
Unset == "unset"                   \* a property the object does not have yet

Reqs == {1, 2}                     \* request slots of the server
SeqReqs == {1}                     \* one request at a time

----------------------------------------------------------------------------
(* Inputs *)

\* The user's intent text of a request (payload.text).
UserInputs == {"deadline app"}

\* Feature texts, and the TF-IDF cosine similarity of each against the user
\* input, in thousandths.  The values sit on and next to the two thresholds.
SimTable ==
    [t \in {"", "deadline tracking", "deadline reminders", "blockchain ledger"} |->
        CASE t = "deadline tracking"  -> 700
          [] t = "deadline reminders" -> 500
          [] t = "blockchain ledger"  -> 250
          [] OTHER                    -> 0]

\* Scores the external judge may answer with, on and next to 0.4 and 0.7.
JudgeScores == {399, 400, 650, 700}

\* A feature as normalised by runValidationPipeline: name and description are
\* strings, description possibly empty.
Feature(n, d) ==
    [name |-> n, description |-> d,
     trace_score |-> NullScore, trace_status |-> Unset, similarity_source |-> Unset]

FeatureKinds ==
    { Feature("Tracking", "deadline tracking"),
      Feature("Reminders", "deadline reminders"),
      Feature("deadline reminders", ""),
      Feature("Ledger", "blockchain ledger") }

GrayFeature == Feature("Reminders", "deadline reminders")

RECURSIVE Repeat(_, _)
Repeat(x, n) == IF n = 0 THEN <<>> ELSE <<x>> \o Repeat(x, n - 1)

SeqsUpTo(S, n) == UNION { [1..k -> S] : k \in 0..n }

\* Every list up to MaxShortLen, and lists that exhaust the judge budget:
\* MAX_JUDGE_CALLS_PER_REQ gray-zone features followed by up to MaxTail more.
FeatureLists ==
    SeqsUpTo(FeatureKinds, MaxShortLen)
    \cup { Repeat(GrayFeature, MAX_JUDGE_CALLS_PER_REQ + k) : k \in 0..MaxTail }

\* The lists of the requests that run concurrently: short ones, a gray-zone
\* feature (same cache key in every request) or a traceable one, and one
\* list of gray-zone features longer than the judge budget.
ConcKinds == { GrayFeature, Feature("Tracking", "deadline tracking") }

ConcLists ==
    SeqsUpTo(ConcKinds, MaxConcLen)
    \cup { Repeat(GrayFeature, MAX_JUDGE_CALLS_PER_REQ + MaxConcLen) }

----------------------------------------------------------------------------
(* Similarity classifier (similarity-engine.mjs) *)

classify(score) ==
    IF score >= TFIDF_TRACEABLE THEN "traceable"
    ELSE IF score <= TFIDF_SPECULATIVE THEN "speculative"
    ELSE "assumption"

analyzeSimilarity(description, userInputText) ==
    LET s == SimTable[description]
    IN  [score |-> s, status |-> classify(s)]

----------------------------------------------------------------------------
(* Circuit breaker *)

\* Variant: the window comparison reversed, so a tripped breaker reopens
\* while the window is still running.
checkCircuitBreaker_reversed(cb, t) ==
    IF cb.tripped
    THEN IF t - cb.lastFailure < resetTime
         THEN [ok |-> TRUE, cb |-> [cb EXCEPT !.tripped = FALSE, !.failures = 0]]
         ELSE [ok |-> FALSE, cb |-> cb]
    ELSE [ok |-> TRUE, cb |-> cb]

\* Variant: the breaker reopens as soon as the elapsed time equals resetTime.
checkCircuitBreaker_inclusive(cb, t) ==
    IF cb.tripped
    THEN IF t - cb.lastFailure >= resetTime
         THEN [ok |-> TRUE, cb |-> [cb EXCEPT !.tripped = FALSE, !.failures = 0]]
         ELSE [ok |-> FALSE, cb |-> cb]
    ELSE [ok |-> TRUE, cb |-> cb]

\* checkCircuitBreaker at time t: whether the call may proceed, and the
\* breaker afterwards.
checkCircuitBreaker(cb, t) ==
    IF cb.tripped
    THEN IF t - cb.lastFailure > resetTime
         THEN [ok |-> TRUE, cb |-> [cb EXCEPT !.tripped = FALSE, !.failures = 0]]
         ELSE [ok |-> FALSE, cb |-> cb]
    ELSE [ok |-> TRUE, cb |-> cb]

\* Variant: trips one failure late.
tripBreaker_late(cb, t) ==
    LET f == cb.failures + 1
    IN  [failures |-> f,
         lastFailure |-> t,
         tripped |-> IF f > TripThreshold THEN TRUE ELSE cb.tripped]

\* Variant: once tripped, a further failure leaves lastFailure at the
\* moment of tripping.
tripBreaker_keepTripTime(cb, t) ==
    LET f == cb.failures + 1
    IN  [failures |-> f,
         lastFailure |-> IF cb.tripped THEN cb.lastFailure ELSE t,
         tripped |-> IF f >= TripThreshold THEN TRUE ELSE cb.tripped]

\* tripBreaker at time t.
tripBreaker(cb, t) ==
    LET f == cb.failures + 1
    IN  [failures |-> f,
         lastFailure |-> t,
         tripped |-> IF f >= TripThreshold THEN TRUE ELSE cb.tripped]

----------------------------------------------------------------------------
(* Judge client *)

cacheKey(featureText, userInput) == featureText \o "|||" \o userInput

EmptyCache == [k \in {} |-> NullScore]

CacheSet(cache, key, score) ==
    [k \in DOMAIN cache \cup {key} |-> IF k = key THEN score ELSE cache[k]]

NoCall ==
    [entryTripped |-> FALSE, entryElapsed |-> 0, entryFailures |-> 0,
     key |-> "", net |-> FALSE, score |-> NullScore, source |-> Unset]

----------------------------------------------------------------------------
(* Drift detector *)

Description(feat) ==
    IF feat.description # "" THEN feat.description ELSE feat.name

\* Variant: the judge's verdict is cut at the configured LLM thresholds
\* (0.60 / 0.40) of config.mjs.
JudgeStatus_configThresholds(score) ==
    IF score >= 600 THEN "traceable"
    ELSE IF score >= 400 THEN "assumption"
    ELSE "speculative"

JudgeStatus(score) ==
    IF score >= JudgeTraceable THEN "traceable"
    ELSE IF score >= JudgeAssumption THEN "assumption"
    ELSE "speculative"

\* Math.round(x) for x = num / den, den > 0.
Round(num, den) == (2 * num + den) \div (2 * den)

InitLoc ==
    [userInputText |-> "", idx |-> 1, traceableCount |-> 0, llmJudgeCalls |-> 0,
     driftInstances |-> <<>>, speculativeFlagged |-> <<>>,
     assumptionAdditions |-> <<>>, judgeInvocations |-> 0,
     assumptions_made |-> <<>>]

NoResult == [returned |-> FALSE]

\* Lines 181-192: the three accumulators, one branch per trace status.
\* Variant: an assumption is counted as traceable as well.
countTraceable_withAssumptions(count, traceStatus) ==
    IF traceStatus \in {"traceable", "assumption"} THEN count + 1 ELSE count

countTraceable(count, traceStatus) ==
    IF traceStatus = "traceable" THEN count + 1 ELSE count

pushAssumption(list, name, finalScore, simSource, traceStatus) ==
    IF traceStatus = "assumption"
    THEN Append(list, [assumption |-> name, score |-> finalScore,
                       source |-> simSource, confidence_impact |-> -2])
    ELSE list

pushSpeculative(list, name, traceStatus) ==
    IF traceStatus \notin {"traceable", "assumption"}
    THEN Append(list, name) ELSE list

\* Variant: a drift instance is recorded only for verdicts of the judge.
pushDrift_judgedOnly(list, name, finalScore, simSource, traceStatus) ==
    IF traceStatus \notin {"traceable", "assumption"} /\ simSource # "tfidf"
    THEN Append(list, [source |-> simSource, name |-> name, score |-> finalScore])
    ELSE list

pushDrift(list, name, finalScore, simSource, traceStatus) ==
    IF traceStatus \notin {"traceable", "assumption"}
    THEN Append(list, [source |-> simSource, name |-> name, score |-> finalScore])
    ELSE list

\* Variant: the synthesized assumption record is also merged into
\* data.assumptions_made.
Settle_mergeAssumptions(r, finalScore, simSource, traceStatus) ==
    LET l == loc[r]
        feat == features[r][l.idx]
    IN  /\ features' = [features EXCEPT ![r][l.idx] =
               [feat EXCEPT !.trace_score = finalScore,
                            !.trace_status = traceStatus,
                            !.similarity_source = simSource]]
        /\ loc' = [loc EXCEPT ![r] =
               [l EXCEPT
                  !.idx = l.idx + 1,
                  !.traceableCount = countTraceable(@, traceStatus),
                  !.assumptionAdditions =
                      pushAssumption(@, feat.name, finalScore, simSource, traceStatus),
                  !.assumptions_made =
                      IF traceStatus = "assumption"
                      THEN Append(@, [assumption |-> feat.name,
                                      confidence_impact |-> -2])
                      ELSE @,
                  !.speculativeFlagged = pushSpeculative(@, feat.name, traceStatus),
                  !.driftInstances =
                      pushDrift(@, feat.name, finalScore, simSource, traceStatus)]]

\* Lines 177-192: write the trace fields on features[idx] and account for it.
Settle(r, finalScore, simSource, traceStatus) ==
    LET l == loc[r]
        feat == features[r][l.idx]
    IN  /\ features' = [features EXCEPT ![r][l.idx] =
               [feat EXCEPT !.trace_score = finalScore,
                            !.trace_status = traceStatus,
                            !.similarity_source = simSource]]
        /\ loc' = [loc EXCEPT ![r] =
               [l EXCEPT
                  !.idx = l.idx + 1,
                  !.traceableCount = countTraceable(@, traceStatus),
                  !.assumptionAdditions =
                      pushAssumption(@, feat.name, finalScore, simSource, traceStatus),
                  !.speculativeFlagged = pushSpeculative(@, feat.name, traceStatus),
                  !.driftInstances =
                      pushDrift(@, feat.name, finalScore, simSource, traceStatus)]]

\* Variant: the budget check lets one call too many through.
InLoop_offByOne(r) ==
    /\ pc[r] = "loop"
    /\ loc[r].idx <= Len(features[r])
    /\ loc[r].llmJudgeCalls <= MAX_JUDGE_CALLS_PER_REQ

\* The loop has a feature to process: the list is not exhausted and the
\* budget check at the top of the body does not break out.
InLoop(r) ==
    /\ pc[r] = "loop"
    /\ loc[r].idx <= Len(features[r])
    /\ loc[r].llmJudgeCalls < MAX_JUDGE_CALLS_PER_REQ

\* runValidationPipeline reaches detectDomainDrift with the normalised data.
StartRequest(r, list, text) ==
    /\ pc[r] \in {"idle", "done"}
    /\ pc' = [pc EXCEPT ![r] = "loop"]
    /\ features' = [features EXCEPT ![r] = list]
    /\ loc' = [loc EXCEPT ![r] = [InitLoc EXCEPT !.userInputText = text]]
    /\ judgeCall' = [judgeCall EXCEPT ![r] = NoCall]
    /\ result' = [result EXCEPT ![r] = NoResult]
    /\ UNCHANGED <<now, circuitBreaker, judgeCache, pipelineVars>>

\* The same with the upstream assumptions of the response: data holds
\* core_functional_components and assumptions_made.
StartPass(r, data, text) ==
    /\ pc[r] \in {"idle", "done"}
    /\ pc' = [pc EXCEPT ![r] = "loop"]
    /\ features' = [features EXCEPT ![r] = data.core_functional_components]
    /\ loc' = [loc EXCEPT ![r] =
           [InitLoc EXCEPT !.userInputText = text,
                           !.assumptions_made = data.assumptions_made]]
    /\ judgeCall' = [judgeCall EXCEPT ![r] = NoCall]
    /\ result' = [result EXCEPT ![r] = NoResult]
    /\ UNCHANGED <<now, circuitBreaker, judgeCache, pipelineVars>>

\* One iteration for a feature that TF-IDF settles alone.
ClassifyFeature(r) ==
    /\ InLoop(r)
    /\ LET feat == features[r][loc[r].idx]
           analysis == analyzeSimilarity(Description(feat), loc[r].userInputText)
       IN  /\ ~(analysis.status = "assumption" /\ USE_LLM_JUDGE)
           /\ Settle(r, analysis.score, "tfidf", analysis.status)
    /\ UNCHANGED <<now, circuitBreaker, judgeCache, pc, judgeCall, result, pipelineVars>>

\* Variant: the judge is consulted for every feature TF-IDF does not find
\* traceable, speculative ones included.
CallJudge_notTraceable(r) ==
    /\ InLoop(r)
    /\ LET feat == features[r][loc[r].idx]
           description == Description(feat)
           analysis == analyzeSimilarity(description, loc[r].userInputText)
           chk == checkCircuitBreaker(circuitBreaker, now)
           key == cacheKey(description, loc[r].userInputText)
           entry == [entryTripped |-> circuitBreaker.tripped,
                     entryElapsed |-> now - circuitBreaker.lastFailure,
                     entryFailures |-> circuitBreaker.failures,
                     key |-> key]
       IN  /\ analysis.status # "traceable" /\ USE_LLM_JUDGE
           /\ loc' = [loc EXCEPT ![r].llmJudgeCalls = @ + 1,
                                 ![r].judgeInvocations = @ + 1]
           /\ circuitBreaker' = chk.cb
           /\ IF ~chk.ok
              THEN /\ judgeCall' = [judgeCall EXCEPT ![r] = entry @@
                          [net |-> FALSE, score |-> NullScore,
                           source |-> "circuit-breaker"]]
                   /\ pc' = [pc EXCEPT ![r] = "resume"]
              ELSE IF key \in DOMAIN judgeCache
              THEN /\ judgeCall' = [judgeCall EXCEPT ![r] = entry @@
                          [net |-> FALSE, score |-> judgeCache[key],
                           source |-> "cache"]]
                   /\ pc' = [pc EXCEPT ![r] = "resume"]
              ELSE /\ judgeCall' = [judgeCall EXCEPT ![r] = entry @@
                          [net |-> TRUE, score |-> NullScore,
                           source |-> "pending"]]
                   /\ pc' = [pc EXCEPT ![r] = "await"]
    /\ UNCHANGED <<now, judgeCache, features, result, pipelineVars>>

\* Variant: the budget counter is advanced after the breaker check, so a
\* call the breaker skips is not counted.
CallJudge_countAfterBreaker(r) ==
    /\ InLoop(r)
    /\ LET feat == features[r][loc[r].idx]
           description == Description(feat)
           analysis == analyzeSimilarity(description, loc[r].userInputText)
           chk == checkCircuitBreaker(circuitBreaker, now)
           key == cacheKey(description, loc[r].userInputText)
           entry == [entryTripped |-> circuitBreaker.tripped,
                     entryElapsed |-> now - circuitBreaker.lastFailure,
                     entryFailures |-> circuitBreaker.failures,
                     key |-> key]
       IN  /\ analysis.status = "assumption" /\ USE_LLM_JUDGE
           /\ loc' = [loc EXCEPT ![r].llmJudgeCalls = IF chk.ok THEN @ + 1 ELSE @,
                                 ![r].judgeInvocations = @ + 1]
           /\ circuitBreaker' = chk.cb
           /\ IF ~chk.ok
              THEN /\ judgeCall' = [judgeCall EXCEPT ![r] = entry @@
                          [net |-> FALSE, score |-> NullScore,
                           source |-> "circuit-breaker"]]
                   /\ pc' = [pc EXCEPT ![r] = "resume"]
              ELSE IF key \in DOMAIN judgeCache
              THEN /\ judgeCall' = [judgeCall EXCEPT ![r] = entry @@
                          [net |-> FALSE, score |-> judgeCache[key],
                           source |-> "cache"]]
                   /\ pc' = [pc EXCEPT ![r] = "resume"]
              ELSE /\ judgeCall' = [judgeCall EXCEPT ![r] = entry @@
                          [net |-> TRUE, score |-> NullScore,
                           source |-> "pending"]]
                   /\ pc' = [pc EXCEPT ![r] = "await"]
    /\ UNCHANGED <<now, judgeCache, features, result, pipelineVars>>

\* Variant: the cache is consulted before the breaker, so a cached score is
\* served while the breaker is tripped.
CallJudge_cacheFirst(r) ==
    /\ InLoop(r)
    /\ LET feat == features[r][loc[r].idx]
           description == Description(feat)
           analysis == analyzeSimilarity(description, loc[r].userInputText)
           chk == checkCircuitBreaker(circuitBreaker, now)
           key == cacheKey(description, loc[r].userInputText)
           entry == [entryTripped |-> circuitBreaker.tripped,
                     entryElapsed |-> now - circuitBreaker.lastFailure,
                     entryFailures |-> circuitBreaker.failures,
                     key |-> key]
       IN  /\ analysis.status = "assumption" /\ USE_LLM_JUDGE
           /\ loc' = [loc EXCEPT ![r].llmJudgeCalls = @ + 1,
                                 ![r].judgeInvocations = @ + 1]
           /\ IF key \in DOMAIN judgeCache
              THEN /\ judgeCall' = [judgeCall EXCEPT ![r] = entry @@
                          [net |-> FALSE, score |-> judgeCache[key],
                           source |-> "cache"]]
                   /\ pc' = [pc EXCEPT ![r] = "resume"]
                   /\ UNCHANGED circuitBreaker
              ELSE IF ~chk.ok
              THEN /\ judgeCall' = [judgeCall EXCEPT ![r] = entry @@
                          [net |-> FALSE, score |-> NullScore,
                           source |-> "circuit-breaker"]]
                   /\ pc' = [pc EXCEPT ![r] = "resume"]
                   /\ circuitBreaker' = chk.cb
              ELSE /\ judgeCall' = [judgeCall EXCEPT ![r] = entry @@
                          [net |-> TRUE, score |-> NullScore,
                           source |-> "pending"]]
                   /\ pc' = [pc EXCEPT ![r] = "await"]
                   /\ circuitBreaker' = chk.cb
    /\ UNCHANGED <<now, judgeCache, features, result, pipelineVars>>

\* One iteration for a gray-zone feature, up to the first await of
\* llmJudgeSimilarity: budget counter, breaker check, cache lookup, fetch.
CallJudge(r) ==
    /\ InLoop(r)
    /\ LET feat == features[r][loc[r].idx]
           description == Description(feat)
           analysis == analyzeSimilarity(description, loc[r].userInputText)
           chk == checkCircuitBreaker(circuitBreaker, now)
           key == cacheKey(description, loc[r].userInputText)
           entry == [entryTripped |-> circuitBreaker.tripped,
                     entryElapsed |-> now - circuitBreaker.lastFailure,
                     entryFailures |-> circuitBreaker.failures,
                     key |-> key]
       IN  /\ analysis.status = "assumption" /\ USE_LLM_JUDGE
           /\ loc' = [loc EXCEPT ![r].llmJudgeCalls = @ + 1,
                                 ![r].judgeInvocations = @ + 1]
           /\ circuitBreaker' = chk.cb
           /\ IF ~chk.ok
              THEN /\ judgeCall' = [judgeCall EXCEPT ![r] = entry @@
                          [net |-> FALSE, score |-> NullScore,
                           source |-> "circuit-breaker"]]
                   /\ pc' = [pc EXCEPT ![r] = "resume"]
              ELSE IF key \in DOMAIN judgeCache
              THEN /\ judgeCall' = [judgeCall EXCEPT ![r] = entry @@
                          [net |-> FALSE, score |-> judgeCache[key],
                           source |-> "cache"]]
                   /\ pc' = [pc EXCEPT ![r] = "resume"]
              ELSE /\ judgeCall' = [judgeCall EXCEPT ![r] = entry @@
                          [net |-> TRUE, score |-> NullScore,
                           source |-> "pending"]]
                   /\ pc' = [pc EXCEPT ![r] = "await"]
    /\ UNCHANGED <<now, judgeCache, features, result, pipelineVars>>

\* Variant: a success closes the failure count, as a breaker that counts
\* consecutive failures would.
JudgeSuccess_resetFailures(r, score) ==
    /\ pc[r] = "await"
    /\ judgeCache' = CacheSet(judgeCache, judgeCall[r].key, score)
    /\ judgeCall' = [judgeCall EXCEPT ![r].score = score, ![r].source = "groq"]
    /\ pc' = [pc EXCEPT ![r] = "resume"]
    /\ circuitBreaker' = [circuitBreaker EXCEPT !.failures = 0]
    /\ UNCHANGED <<now, features, loc, result, pipelineVars>>

\* The fetch settles with a numeric score.
JudgeSuccess(r, score) ==
    /\ pc[r] = "await"
    /\ judgeCache' = CacheSet(judgeCache, judgeCall[r].key, score)
    /\ judgeCall' = [judgeCall EXCEPT ![r].score = score, ![r].source = "groq"]
    /\ pc' = [pc EXCEPT ![r] = "resume"]
    /\ UNCHANGED <<now, circuitBreaker, features, loc, result, pipelineVars>>

\* Variant: a first failed attempt is re-issued once before the call
\* gives up.
JudgeFailure_retryOnce(r) ==
    /\ pc[r] = "await"
    /\ IF judgeCall[r].source = "pending"
       THEN /\ judgeCall' = [judgeCall EXCEPT ![r].source = "retrying"]
            /\ UNCHANGED <<circuitBreaker, pc>>
       ELSE /\ circuitBreaker' = tripBreaker(circuitBreaker, now)
            /\ judgeCall' = [judgeCall EXCEPT ![r].score = NullScore,
                                              ![r].source = "error"]
            /\ pc' = [pc EXCEPT ![r] = "resume"]
    /\ UNCHANGED <<now, judgeCache, features, loc, result, pipelineVars>>

\* The fetch fails: abort timeout, transport error, error payload,
\* unparsable content or a non-numeric score.
JudgeFailure(r) ==
    /\ pc[r] = "await"
    /\ circuitBreaker' = tripBreaker(circuitBreaker, now)
    /\ judgeCall' = [judgeCall EXCEPT ![r].score = NullScore, ![r].source = "error"]
    /\ pc' = [pc EXCEPT ![r] = "resume"]
    /\ UNCHANGED <<now, judgeCache, features, loc, result, pipelineVars>>

\* Variant: a judge call that returned null flags the feature speculative
\* instead of keeping the TF-IDF verdict.
ResumeLoop_flagOnNull(r) ==
    /\ pc[r] = "resume"
    /\ LET judge == judgeCall[r]
       IN  IF judge.score # NullScore
           THEN Settle(r, judge.score, "llm-judge-" \o judge.source,
                       JudgeStatus(judge.score))
           ELSE Settle(r, 0, "llm-judge-" \o judge.source, "speculative")
    /\ pc' = [pc EXCEPT ![r] = "loop"]
    /\ judgeCall' = [judgeCall EXCEPT ![r] = NoCall]
    /\ UNCHANGED <<now, circuitBreaker, judgeCache, result, pipelineVars>>

\* The loop resumes with the judge's answer (lines 170-192).
ResumeLoop(r) ==
    /\ pc[r] = "resume"
    /\ LET feat == features[r][loc[r].idx]
           analysis == analyzeSimilarity(Description(feat), loc[r].userInputText)
           judge == judgeCall[r]
       IN  IF judge.score # NullScore
           THEN Settle(r, judge.score, "llm-judge-" \o judge.source,
                       JudgeStatus(judge.score))
           ELSE Settle(r, analysis.score, "tfidf", analysis.status)
    /\ pc' = [pc EXCEPT ![r] = "loop"]
    /\ judgeCall' = [judgeCall EXCEPT ![r] = NoCall]
    /\ UNCHANGED <<now, circuitBreaker, judgeCache, result, pipelineVars>>

\* Variant: the consistency is taken over the features the loop processed.
ValidationLogic_processedOnly(r) ==
    LET l == loc[r]
        n == l.idx - 1
    IN  [returned |-> TRUE,
         domain_drift_instances |-> l.driftInstances,
         speculative_features_flagged |-> l.speculativeFlagged,
         assumption_count |-> Len(l.assumptions_made),
         internal_consistency_check |->
             IF Len(l.driftInstances) = 0 THEN "PASS" ELSE "PARTIAL",
         domain_consistency_computed |->
             IF n > 0 THEN Round(l.traceableCount * 10000, n) ELSE 10000,
         llm_judge_calls |-> l.llmJudgeCalls]

\* Variant: the check passes only when every feature is traceable.
ValidationLogic_allTraceable(r) ==
    LET l == loc[r]
        n == Len(features[r])
    IN  [returned |-> TRUE,
         domain_drift_instances |-> l.driftInstances,
         speculative_features_flagged |-> l.speculativeFlagged,
         assumption_count |-> Len(l.assumptions_made),
         internal_consistency_check |->
             IF l.traceableCount = n THEN "PASS" ELSE "PARTIAL",
         domain_consistency_computed |->
             IF n > 0 THEN Round(l.traceableCount * 10000, n) ELSE 10000,
         llm_judge_calls |-> l.llmJudgeCalls]

\* Lines 195-208: what detectDomainDrift returns.
ValidationLogic(r) ==
    LET l == loc[r]
        n == Len(features[r])
    IN  [returned |-> TRUE,
         domain_drift_instances |-> l.driftInstances,
         speculative_features_flagged |-> l.speculativeFlagged,
         assumption_count |-> Len(l.assumptions_made),
         internal_consistency_check |->
             IF Len(l.driftInstances) = 0 THEN "PASS" ELSE "PARTIAL",
         domain_consistency_computed |->
             IF n > 0 THEN Round(l.traceableCount * 10000, n) ELSE 10000,
         llm_judge_calls |-> l.llmJudgeCalls]

\* The loop ends (list exhausted, or the budget check breaks out) and the
\* pass returns.
FinishPass(r) ==
    /\ pc[r] = "loop"
    /\ ~InLoop(r)
    /\ result' = [result EXCEPT ![r] = ValidationLogic(r)]
    /\ pc' = [pc EXCEPT ![r] = "done"]
    /\ UNCHANGED <<now, circuitBreaker, judgeCache, features, loc, judgeCall, pipelineVars>>

\* Time passes.
Tick(d) ==
    /\ now + d <= BootTime + MaxTicks * (resetTime \div 2)
    /\ now' = now + d
    /\ UNCHANGED <<circuitBreaker, judgeCache, pc, features, loc, judgeCall, result, pipelineVars>>

\* Half a reset window per step: the elapsed time since a failure is below,
\* exactly at, or beyond resetTime.
TickSteps == {resetTime \div 2}

----------------------------------------------------------------------------
(* Confidence scorer *)

Min(a, b) == IF a < b THEN a ELSE b
Max(a, b) == IF a > b THEN a ELSE b

\* Math.min(100, Math.max(0, x ?? dflt))
clampScore(x, dflt) == Min(ScoreMax, Max(0, IF x = Absent THEN dflt ELSE x))

expected == {"security", "performance", "scalability", "reliability", "usability"}

\* Line 221.  An NFR entry is the set of expected categories that its
\* lower-cased category string contains as a substring.
covered(nfrs) == { cat \in expected : \E i \in 1..Len(nfrs) : cat \in nfrs[i] }

\* Variant: the DC penalty also hits DC = 75.
coupledLC_inclusiveFloor(lc, consistency, DC) ==
    LET LC0 == clampScore(lc, DefaultLC)
        LC1 == IF consistency # "PASS" THEN Max(0, LC0 - ConsistencyPenalty) ELSE LC0
    IN  IF DC <= DcFloor THEN Max(0, LC1 - DcPenalty) ELSE LC1

\* Lines 224-226: LC after the two coupling penalties.
coupledLC(lc, consistency, DC) ==
    LET LC0 == clampScore(lc, DefaultLC)
        LC1 == IF consistency # "PASS" THEN Max(0, LC0 - ConsistencyPenalty) ELSE LC0
    IN  IF DC < DcFloor THEN Max(0, LC1 - DcPenalty) ELSE LC1

\* Line 228.
assumptionPenalty(n) == Min(PenaltyCap, n * UnitCost)

\* Variant: the result is capped at 100 but not floored at 0.
finalScore_noFloor(IC, DC, RC, LC, penalty) ==
    LET raw100 == WeightIC * IC + WeightDC * DC + WeightRC * RC + WeightLC * LC
                  - 100 * penalty
    IN  Min(ScoreMax, Round(raw100, 100))

\* Lines 229-230: the weighted sum less the penalty, rounded to two decimals
\* and clamped.
finalScore(IC, DC, RC, LC, penalty) ==
    LET raw100 == WeightIC * IC + WeightDC * DC + WeightRC * RC + WeightLC * LC
                  - 100 * penalty
    IN  Max(0, Min(ScoreMax, Round(raw100, 100)))

\* Sums and products are exact here; the code's are IEEE doubles.
recomputeConfidence(data, validationLogic) ==
    LET IC == clampScore(data.input_clarity, DefaultIC)
        DC == clampScore(validationLogic.domain_consistency_computed, DefaultDC)
        RC == Min(ScoreMax, Max(0, (Cardinality(covered(data.non_functional_requirements))
                                    * ScoreMax) \div Cardinality(expected)))
        LC == coupledLC(data.logical_coherence,
                        validationLogic.internal_consistency_check, DC)
        penalty == assumptionPenalty(Len(data.assumptions_made))
    IN  [returned |-> TRUE,
         input_clarity |-> Round(IC, 100),
         domain_consistency |-> Round(DC, 100),
         requirement_completeness |-> Round(RC, 100),
         logical_coherence |-> Round(LC, 100),
         assumption_penalty |-> -Round(penalty, 10),
         final_score |-> finalScore(IC, DC, RC, LC, penalty),
         server_computed |-> TRUE]

\* Inputs of the scorer: sub-scores below, inside and above 0..100, absent
\* ones, NFR lists covering 0..5 of the expected categories.
ClarityInputs == {Absent, -2000, 0, 1000, 8000, 10000, 15000}
CoherenceInputs == {Absent, -2000, 0, 1200, 8500, 10000, 15000}
DomainInputs == {Absent, -2000, 0, 3333, 6000, 7499, 7500, 8000, 10000, 15000}
\* confidence_impact of an assumption: the default -2, or a heavier -5.
ImpactInputs == {-2, -5}
NfrLists ==
    { <<>>,
      <<{}>>,
      <<{"security"}>>,
      <<{"security", "performance"}, {}>>,
      <<{"security"}, {"performance"}, {"usability"}>>,
      <<{"security", "performance"}, {"scalability", "reliability"}>>,
      <<{"security"}, {"performance"}, {"scalability"}, {"reliability"}, {"usability"}>> }

ConfInputs ==
    [data :
        [input_clarity : ClarityInputs,
         logical_coherence : CoherenceInputs,
         non_functional_requirements : NfrLists,
         assumptions_made :
            { Repeat(impact, n) : impact \in ImpactInputs, n \in 0..MaxAssumptions }],
     validationLogic :
        [domain_consistency_computed : DomainInputs,
         internal_consistency_check : {"PASS", "PARTIAL"}]]

NoConfIn ==
    [data |->
        [input_clarity |-> Absent, logical_coherence |-> Absent,
         non_functional_requirements |-> <<>>, assumptions_made |-> <<>>],
     validationLogic |->
        [domain_consistency_computed |-> Absent,
         internal_consistency_check |-> "PASS"]]

NoConfOut == [returned |-> FALSE]

\* recomputeConfidence(data, validationLogic) is called and returns.
Recompute ==
    /\ ~confOut.returned
    /\ confOut' = recomputeConfidence(confIn.data, confIn.validationLogic)
    /\ UNCHANGED <<confIn, engineVars, enfVars, edgeVars>>

----------------------------------------------------------------------------
(* Consistency enforcement *)

\* The return value null of enforceConsistency.
NullDiagnostics == [isNull |-> TRUE, inconsistencies |-> <<>>, count |-> 0]

enforceConsistency(data, validationLogic) ==
    LET driftCount == Len(validationLogic.domain_drift_instances)
        specCount == Len(validationLogic.speculative_features_flagged)
        diagnostics ==
            IF driftCount # specCount
            THEN <<[check |-> "parity", detail |-> "drift vs spec mismatch"]>>
            ELSE <<>>
    IN  IF Len(diagnostics) > 0
        THEN [isNull |-> FALSE, inconsistencies |-> diagnostics,
              count |-> Len(diagnostics)]
        ELSE NullDiagnostics

\* Feature names that the two lists of a ValidationLogic may hold.
ParityNames == {"Ledger", "Reminders", "Feature"}

EnforceInputs ==
    [data : {NoConfIn.data},
     validationLogic :
        [domain_drift_instances : SeqsUpTo(ParityNames, MaxParityLen),
         speculative_features_flagged : SeqsUpTo(ParityNames, MaxParityLen)]]

NoEnfIn ==
    [data |-> NoConfIn.data,
     validationLogic |->
        [domain_drift_instances |-> <<>>, speculative_features_flagged |-> <<>>]]

NoEnfOut == [returned |-> FALSE]

\* enforceConsistency(data, validationLogic) is called and returns.
Enforce ==
    /\ ~enfOut.returned
    /\ enfOut' = [returned |-> TRUE,
                  value |-> enforceConsistency(enfIn.data, enfIn.validationLogic)]
    /\ UNCHANGED <<enfIn, engineVars, confVars, edgeVars>>

----------------------------------------------------------------------------
(* HTTP server: rate limiter, request handlers, audit log *)

Ips == {"127.0.0.1"}
Urls == {"/api/validate", "/api/execute-tool"}

NoRecord == [count |-> -1, resetAt |-> -1]

\* Lines 32-50.  The record read from the Map is mutated in place, so a
\* window reset reaches the Map even without the final set().
checkRateLimit(map, ip, limit, t) ==
    LET record0 == IF map[ip] = NoRecord
                   THEN [count |-> 0, resetAt |-> t + windowMs] ELSE map[ip]
        record1 == IF t > record0.resetAt
                   THEN [count |-> 0, resetAt |-> t + windowMs] ELSE record0
    IN  IF record1.count >= limit
        THEN [ok |-> FALSE,
              map |-> IF map[ip] = NoRecord THEN map ELSE [map EXCEPT ![ip] = record1]]
        ELSE [ok |-> TRUE,
              map |-> [map EXCEPT ![ip] = [record1 EXCEPT !.count = @ + 1]]]

\* Lines 449-450 and 467: the limit the handler of url passes.
limitType(url) == IF url = "/analyze.php" THEN ANALYZE_MIN ELSE VALIDATE_MIN

\* The tally of accepted requests, kept next to checkRateLimit: it starts
\* afresh whenever the limiter opens a new window for the ip.
Tally(ip, url, t, ok) ==
    LET fresh == rateLimitMap[ip] = NoRecord \/ t > rateLimitMap[ip].resetAt
        base == IF fresh THEN [u \in Urls |-> 0] ELSE accepted[ip]
    IN  [accepted EXCEPT ![ip] = IF ok THEN [base EXCEPT ![url] = @ + 1] ELSE base]

\* Line 289.
TOOL_ALLOWLIST == {"chatgpt", "copilot", "plan", "test-scaffold"}

\* Line 290.
PROMPT_DENYLIST ==
    {"exec(", "eval(", "child_process", "rm -rf", "drop table", "delete from",
     "__proto__", "constructor["}

\* A prompt string is a sequence of fragments; toLowerCase on a fragment.
toLowerCase ==
    [f \in {"Build a tracker", "use ", "eval(", "EXEC(", "child_process"} |->
        CASE f = "Build a tracker" -> "build a tracker"
          [] f = "EXEC(" -> "exec("
          [] OTHER -> f]

Str(text) == [type |-> "string", text |-> text]
Undefined == [type |-> "undefined", text |-> <<>>]
NumberValue == [type |-> "number", text |-> <<>>]
NullPrompt == [type |-> "null", text |-> <<>>]

\* Lines 298-304.  includes() is decided fragment by fragment; no prompt of
\* the model is longer than 50000 characters or holds control characters.
sanitizePrompt(prompt) ==
    IF prompt.type # "string" THEN NullPrompt
    ELSE IF \E i \in 1..Len(prompt.text) :
                toLowerCase[prompt.text[i]] \in PROMPT_DENYLIST
         THEN NullPrompt
         ELSE prompt

Malformed == [kind |-> "malformed"]
ToolBody(tool, prompt) == [kind |-> "json", tool |-> tool, prompt |-> prompt]

\* Bodies posted to /api/execute-tool.
ExecBodies ==
    { Malformed,
      ToolBody("chatgpt", Str(<<"Build a tracker">>)),
      ToolBody("sql-injector", Str(<<"Build a tracker">>)),
      ToolBody("chatgpt", Str(<<"use ", "eval(">>)),
      ToolBody("chatgpt", Str(<<"EXEC(">>)),
      ToolBody("test-scaffold", Str(<<"child_process">>)),
      ToolBody("chatgpt", Undefined),
      ToolBody("chatgpt", NumberValue) }

\* What groqRequest does: it resolves with the content or rejects.
UpstreamOutcomes == {"ok", "fail"}

NoBody == [kind |-> "none"]
NoReq == [url |-> "", ip |-> "", body |-> NoBody]
NoRes == [status |-> 0, keys |-> {}, upstream |-> FALSE,
          final_score |-> Absent, inconsistencies_found |-> "absent", id |-> 0]

Response(status, keys, upstream) ==
    [NoRes EXCEPT !.status = status, !.keys = keys, !.upstream = upstream]

\* sendError: a problem+json body.
ProblemKeys == {"type", "title", "status", "detail", "correlation_id"}

\* POST /api/execute-tool (lines 466-477), with the answer of the upstream
\* model when the handler gets as far as calling it.
ExecuteTool(ip, body, upstream) ==
    LET rl == checkRateLimit(rateLimitMap, ip, EXECUTE_MIN, now)
    IN  /\ rateLimitMap' = rl.map
        /\ accepted' = Tally(ip, "/api/execute-tool", now, rl.ok)
        /\ httpReq' = [url |-> "/api/execute-tool", ip |-> ip, body |-> body]
        /\ httpRes' =
              IF ~rl.ok THEN Response(429, ProblemKeys, FALSE)
              ELSE IF body.kind = "malformed" THEN Response(500, ProblemKeys, FALSE)
              ELSE IF body.tool \notin TOOL_ALLOWLIST
                   THEN Response(400, ProblemKeys, FALSE)
              ELSE IF upstream = "ok"
                   THEN Response(200, {"ok", "tool", "toolResponse"}, TRUE)
                   ELSE Response(500, ProblemKeys, TRUE)
        /\ UNCHANGED <<auditLog, engineVars, confVars, enfVars, fnVars, phpVars, sideVars>>

\* Values the generator may put where a list of entries is expected, and
\* the entries themselves.  An entry is an object (a field it lacks is
\* Unset or Absent), null, or a primitive string.
Entry(name, description, assumption, impact) ==
    [type |-> "object", name |-> name, description |-> description,
     assumption |-> assumption, confidence_impact |-> impact]
JsNull == [type |-> "null", name |-> Unset, description |-> Unset,
           assumption |-> Unset, confidence_impact |-> Absent]
JsString == [type |-> "string", name |-> Unset, description |-> Unset,
             assumption |-> Unset, confidence_impact |-> Absent]

JsAbsent == [shape |-> "absent", items |-> <<>>]
JsArray(items) == [shape |-> "array", items |-> items]
JsObject(values) == [shape |-> "object", items |-> values]
JsSingle(item) == [shape |-> "primitive", items |-> <<item>>]

\* Reading a property of null throws a TypeError.
TypeError == [threw |-> TRUE]

\* Lines 379-384: the mapper of core_functional_components.
mapFeature(f) ==
    IF f.type = "null" THEN TypeError
    ELSE [name |-> IF f.name = Unset THEN "Feature" ELSE f.name,
          description |-> IF f.description = Unset THEN "" ELSE f.description]

\* Lines 386-390: the mapper of assumptions_made.
mapAssumption(a) ==
    IF a.type = "null" THEN TypeError
    ELSE [assumption |-> IF a.assumption = Unset
                         THEN "Inferred Requirement" ELSE a.assumption,
          confidence_impact |-> IF a.confidence_impact = Absent
                                THEN -2 ELSE a.confidence_impact]

\* The mappers as values that can be handed to harvestArray.
FeatureMapper(input) ==
    [f \in { input.items[i] : i \in 1..Len(input.items) } |-> mapFeature(f)]
AssumptionMapper(input) ==
    [a \in { input.items[i] : i \in 1..Len(input.items) } |-> mapAssumption(a)]

\* Lines 258-262.  The result is the mapped list, or the exception that a
\* mapper threw.
harvestArray(input, itemMapper) ==
    IF input.shape = "absent" THEN [threw |-> FALSE, value |-> <<>>]
    ELSE LET arr == input.items
             mapped == [i \in 1..Len(arr) |-> itemMapper[arr[i]]]
         IN  IF \E i \in 1..Len(arr) : mapped[i] = TypeError
             THEN [threw |-> TRUE, value |-> <<>>]
             ELSE [threw |-> FALSE, value |-> mapped]

\* Variant: the log is never trimmed.
insertAuditLog_noTrim(log, entry) == Append(log, entry)

\* db.mjs lines 50-77, the in-memory fallback log.
insertAuditLog(log, entry) ==
    LET pushed == Append(log, entry)
    IN  IF Len(pushed) > AUDIT_LOG_MAX THEN Tail(pushed) ELSE pushed

\* db.mjs lines 79-90: the entry with that id, or none.
getAuditLog(log, id) == { log[i] : i \in { j \in 1..Len(log) : log[j].id = id } }

\* crypto.randomUUID(): an id no earlier entry has.
NewId(log) == IF log = <<>> THEN 1 ELSE log[Len(log)].id + 1

\* Lines 266-285.
logAudit(log) ==
    insertAuditLog(log, [id |-> NewId(log), tool |-> "synthesis", status |-> 200])

\* Payloads posted to /api/validate.
ValidatePayloads ==
    { Malformed,
      [kind |-> "json", mode |-> "clarify", answers |-> FALSE],
      [kind |-> "json", mode |-> "generate", answers |-> FALSE],
      [kind |-> "json", mode |-> "generate", answers |-> TRUE] }

GoodFeature == Entry("Ledger", "Track expenses", Unset, Absent)
GoodAssumption == Entry(Unset, Unset, "Single currency", Absent)

\* What callGroq and detectDomainDrift hand to the pipeline: the generator
\* fails, or it answers with a raw response that the drift pass then scores.
\* The scores lie on both sides of the confidence floor, with and without
\* a parity mismatch, and one answer holds a null assumption entry.
RawResponse(clarity, assumptions) ==
    [input_clarity |-> clarity,
     logical_coherence |-> 0,
     non_functional_requirements |-> <<>>,
     core_functional_components |-> JsArray(<<GoodFeature>>),
     assumptions_made |-> assumptions]

DriftResult(dc, drift) ==
    [domain_consistency_computed |-> dc,
     internal_consistency_check |-> "PASS",
     domain_drift_instances |-> drift,
     speculative_features_flagged |-> <<>>]

Answer(rawResponse, validationLogic) ==
    [groq |-> "ok", rawResponse |-> rawResponse, validationLogic |-> validationLogic]

PipelineOutcomes ==
    { [groq |-> "error"],
      Answer(RawResponse(0, JsAbsent), DriftResult(0, <<>>)),
      Answer(RawResponse(0, JsAbsent), DriftResult(3330, <<>>)),
      Answer(RawResponse(0, JsAbsent), DriftResult(3333, <<>>)),
      Answer(RawResponse(0, JsArray(<<GoodAssumption>>)), DriftResult(3333, <<>>)),
      Answer(RawResponse(0, JsAbsent), DriftResult(0, <<"Ledger">>)),
      Answer(RawResponse(8000, JsAbsent), DriftResult(3333, <<"Ledger">>)),
      Answer(RawResponse(8000, JsArray(<<GoodAssumption, JsNull>>)),
             DriftResult(3333, <<>>)) }

isClarify(payload) == payload.mode = "clarify" \/ ~payload.answers

\* Lines 368-412 after callGroq has answered in generate mode: the scores
\* and diagnostics of the response, or the exception of a mapper.
runValidationPipeline(rawResponse, validationLogic) ==
    LET components == harvestArray(rawResponse.core_functional_components,
                                   FeatureMapper(rawResponse.core_functional_components))
        assumptions == harvestArray(rawResponse.assumptions_made,
                                    AssumptionMapper(rawResponse.assumptions_made))
        data == [input_clarity |-> rawResponse.input_clarity,
                 logical_coherence |-> rawResponse.logical_coherence,
                 non_functional_requirements |->
                     rawResponse.non_functional_requirements,
                 assumptions_made |-> assumptions.value]
        confidence == recomputeConfidence(data, validationLogic)
        inconsistencies == enforceConsistency(data, validationLogic)
    IN  IF components.threw \/ assumptions.threw
        THEN [threw |-> TRUE, final_score |-> Absent,
              inconsistencies_found |-> "absent", isBlocking |-> FALSE]
        ELSE [threw |-> FALSE,
              final_score |-> confidence.final_score,
              inconsistencies_found |->
                  IF inconsistencies.isNull THEN "null" ELSE "non-null",
              isBlocking |-> confidence.final_score < CONFIDENCE_MIN]

ResponseKeys ==
    {"core_functional_components", "assumptions_made", "validation_logic",
     "confidence_breakdown", "inconsistencies_found"}

\* The variant that also rejects a response carrying diagnostics.
validateResponse_rejectInconsistent(run) ==
    IF run.threw THEN Response(500, ProblemKeys, TRUE)
    ELSE IF run.isBlocking \/ run.inconsistencies_found = "non-null"
         THEN [Response(422, ProblemKeys, TRUE) EXCEPT
                  !.final_score = run.final_score]
         ELSE [Response(200, ResponseKeys, TRUE) EXCEPT
                  !.final_score = run.final_score,
                  !.inconsistencies_found = run.inconsistencies_found]

\* The validate handler's answer to the pipeline's result (lines 452-462).
validateResponse(run) ==
    IF run.threw THEN Response(500, ProblemKeys, TRUE)
    ELSE IF run.isBlocking
         THEN [Response(422, ProblemKeys, TRUE) EXCEPT
                  !.final_score = run.final_score]
         ELSE [Response(200, ResponseKeys, TRUE) EXCEPT
                  !.final_score = run.final_score,
                  !.inconsistencies_found = run.inconsistencies_found]

\* POST /api/validate and /analyze.php (lines 448-463).
Validate(ip, url, payload, outcome) ==
    LET rl == checkRateLimit(rateLimitMap, ip, limitType(url), now)
        generate == /\ rl.ok
                    /\ payload.kind = "json"
                    /\ outcome.groq = "ok"
                    /\ ~isClarify(payload)
        run == runValidationPipeline(outcome.rawResponse, outcome.validationLogic)
    IN  /\ rateLimitMap' = rl.map
        /\ accepted' = Tally(ip, url, now, rl.ok)
        /\ httpReq' = [url |-> url, ip |-> ip, body |-> payload]
        /\ httpRes' =
              IF ~rl.ok THEN Response(429, ProblemKeys, FALSE)
              ELSE IF payload.kind = "malformed" THEN Response(500, ProblemKeys, FALSE)
              ELSE IF outcome.groq = "error" THEN Response(500, ProblemKeys, TRUE)
              ELSE IF isClarify(payload) THEN Response(200, {"questions"}, TRUE)
              ELSE validateResponse(run)
        /\ auditLog' = IF generate /\ ~run.threw THEN logAudit(auditLog)
                       ELSE auditLog
        /\ UNCHANGED <<engineVars, confVars, enfVars, fnVars, phpVars, sideVars>>

\* GET /api/logs/<id> (lines 509-517).
GetLog(ip, id) ==
    LET entry == getAuditLog(auditLog, id)
    IN  /\ httpReq' = [url |-> "/api/logs", ip |-> ip, body |-> [kind |-> "id", id |-> id]]
        /\ httpRes' = IF entry = {}
                      THEN Response(404, ProblemKeys, FALSE)
                      ELSE [Response(200, {"id", "tool", "status"}, FALSE) EXCEPT
                               !.id = id]
        /\ UNCHANGED <<rateLimitMap, accepted, auditLog, engineVars, confVars,
                       enfVars, fnVars, phpVars, sideVars>>

InitHttp ==
    /\ rateLimitMap = [ip \in Ips |-> NoRecord]
    /\ accepted = [ip \in Ips |-> [u \in Urls |-> 0]]
    /\ auditLog = <<>>
    /\ httpReq = NoReq
    /\ httpRes = NoRes

\* No function of the ingestion layer has been applied.
NoFnIn == [fn |-> "none"]
NoFnOut == [fn |-> "none"]

----------------------------------------------------------------------------
(* analyze.php: the rate limiter over a shared state file *)

\* The PHP processes that serve requests of one client IP at a time.
PhpProcs == {1, 2}

\* Seconds by which time() advances between two steps.
PhpTickSteps == {1, RATE_LIMIT_WINDOW - 1}

InitPhp ==
    php = [clock |-> 0,
           ticks |-> 0,
           file |-> <<>>,
           lock |-> 0,
           pc |-> [p \in PhpProcs |-> "idle"],
           stamp |-> [p \in PhpProcs |-> 0],
           status |-> [p \in PhpProcs |-> "none"],
           passes |-> <<>>]

\* array_filter($timestamps, fn($t) => $t > $windowStart), line 243.
Unexpired(timestamps, windowStart) ==
    SelectSeq(timestamps, LAMBDA t : t > windowStart)

\* Lines 223-230: $now = time(), then fopen, which may fail; the request
\* then passes unchecked.
PhpEnter(p, opened) ==
    /\ php.pc[p] = "idle"
    /\ php' = [php EXCEPT
                  !.stamp[p] = php.clock,
                  !.pc[p] = IF opened THEN "opened" ELSE "idle",
                  !.status[p] = IF opened THEN "none" ELSE "open-failed"]
    /\ UNCHANGED <<engineVars, confVars, enfVars, httpVars, fnVars, sideVars>>

\* flock($fp, LOCK_EX), line 231: returns once no other process holds it.
PhpFlock(p) ==
    /\ php.pc[p] = "opened"
    /\ php.lock = 0
    /\ php' = [php EXCEPT !.lock = p, !.pc[p] = "locked"]
    /\ UNCHANGED <<engineVars, confVars, enfVars, httpVars, fnVars, sideVars>>

\* Lines 233-260 under the lock: read, filter, then either answer 429 or
\* append $now, write back; unlock.  passes keeps the times at which
\* requests passed, as far back as one window.
PhpCheck(p) ==
    /\ php.pc[p] = "locked"
    /\ LET timestamps == Unexpired(php.file, php.stamp[p] - RATE_LIMIT_WINDOW)
       IN  IF Len(timestamps) >= RATE_LIMIT_MAX
           THEN php' = [php EXCEPT !.lock = 0, !.pc[p] = "idle",
                                   !.status[p] = "rejected"]
           ELSE php' = [php EXCEPT
                           !.file = Append(timestamps, php.stamp[p]),
                           !.lock = 0, !.pc[p] = "idle",
                           !.status[p] = "passed",
                           !.passes = Append(
                               Unexpired(php.passes, php.clock - RATE_LIMIT_WINDOW),
                               php.clock)]
    /\ UNCHANGED <<engineVars, confVars, enfVars, httpVars, fnVars, sideVars>>

PhpTick(d) ==
    /\ php.ticks < MaxPhpTicks
    /\ php' = [php EXCEPT !.clock = @ + d, !.ticks = @ + 1]
    /\ UNCHANGED <<engineVars, confVars, enfVars, httpVars, fnVars, sideVars>>

\* db.mjs before initDb and metrics.mjs at load: no SQLite handle, an empty
\* table, empty metric buffers, no call made.
NoSinkCall == [fn |-> "none"]
InitSinks ==
    sinks = [db |-> FALSE, rows |-> {}, latencies |-> <<>>, confidences |-> <<>>,
             issued |-> 0, ops |-> 0, call |-> NoSinkCall]

\* analyze.php: no request is being served and the cache directory is empty.
NoCacheFile == [exists |-> FALSE]
InitProxy ==
    proxy = [clock |-> 0, ticks |-> 0, cache |-> NoCacheFile, pc |-> "idle",
             attempt |-> 1, tries |-> <<>>, lastError |-> "none", status |-> 0,
             before |-> NoCacheFile, age |-> 0, hit |-> FALSE]

\* engine.js: let _session = null.
NoSession == [active |-> FALSE]
NoEngineCall == [fn |-> "none"]
InitSession ==
    session = [s |-> NoSession, out |-> NoEngineCall, clarifies |-> 0, calls |-> 0]

InitSide ==
    /\ InitSinks
    /\ InitProxy
    /\ InitSession

InitEdge ==
    /\ InitHttp
    /\ fnIn = NoFnIn
    /\ fnOut = NoFnOut
    /\ InitPhp
    /\ InitSide

----------------------------------------------------------------------------
(* analyze.php: the response cache and the retry loop *)

\* What one pass of the loop body gets from callGroq and the two checks:
\* no response, a response json_decode rejects, one that fails
\* validateSchemaByMode, or one that passes.
AttemptOutcomes == {"null", "unparsable", "invalid", "valid"}

\* saveCache, lines 287-290: the file holds the data, its mtime is time().
CacheFile(t, data) == [exists |-> TRUE, mtime |-> t, data |-> data]

\* getCached, lines 269-281: null for no file and for a file older than
\* CACHE_TTL, which is removed; else the decoded data.
getCached(file, t) ==
    IF ~file.exists THEN [value |-> "null", file |-> file]
    ELSE IF (t - file.mtime) > CACHE_TTL THEN [value |-> "null", file |-> NoCacheFile]
    ELSE [value |-> file.data, file |-> file]

\* Lines 140-149: a request that passed input validation and the rate limit
\* looks its key up; a hit is answered at once.
ProxyEnter ==
    LET cached == getCached(proxy.cache, proxy.clock)
    IN  /\ proxy.pc \in {"idle", "done"}
        /\ proxy' = [proxy EXCEPT
               !.before = proxy.cache,
               !.age = IF proxy.cache.exists
                       THEN proxy.clock - proxy.cache.mtime ELSE 0,
               !.cache = cached.file,
               !.hit = (cached.value # "null"),
               !.status = IF cached.value # "null" THEN 200 ELSE 0,
               !.pc = IF cached.value # "null" THEN "done" ELSE "attempt",
               !.attempt = 1,
               !.tries = <<>>,
               !.lastError = "none"]
        /\ UNCHANGED <<engineVars, confVars, enfVars, httpVars, fnVars, phpVars,
                       sinks, session>>

\* Lines 155-172: one pass of the loop body, around one upstream call.
ProxyAttempt(outcome) ==
    /\ proxy.pc = "attempt"
    /\ proxy.attempt <= MaxAttempts
    /\ proxy' = [proxy EXCEPT
           !.tries = Append(@, outcome),
           !.lastError = IF outcome = "valid" THEN @
                         ELSE IF outcome = "null" THEN "API_FAILURE"
                         ELSE "MODEL_INVALID",
           !.attempt = @ + 1,
           !.pc = IF outcome = "valid" \/ proxy.attempt + 1 > MaxAttempts
                  THEN "finish" ELSE "attempt"]
    /\ UNCHANGED <<engineVars, confVars, enfVars, httpVars, fnVars, phpVars,
                   sinks, session>>

\* The loop left a result: its last pass passed both checks.
HasResult == proxy.tries # <<>> /\ proxy.tries[Len(proxy.tries)] = "valid"

\* Variant: whatever the last pass got is cached and returned.
ProxyFinish_cacheAlways ==
    /\ proxy.pc = "finish"
    /\ proxy' = [proxy EXCEPT
           !.pc = "done",
           !.status = 200,
           !.cache = CacheFile(proxy.clock, proxy.tries[Len(proxy.tries)])]
    /\ UNCHANGED <<engineVars, confVars, enfVars, httpVars, fnVars, phpVars,
                   sinks, session>>

\* Lines 175-184: no result ends in jsonError(..., 500); a result is cached
\* and returned.
ProxyFinish ==
    /\ proxy.pc = "finish"
    /\ proxy' = [proxy EXCEPT
           !.pc = "done",
           !.status = IF HasResult THEN 200 ELSE 500,
           !.cache = IF HasResult
                     THEN CacheFile(proxy.clock, proxy.tries[Len(proxy.tries)])
                     ELSE @]
    /\ UNCHANGED <<engineVars, confVars, enfVars, httpVars, fnVars, phpVars,
                   sinks, session>>

\* time() advances: by a second, or by half the cache lifetime.
ProxyTickSteps == {1, CACHE_TTL \div 2}

ProxyTick(d) ==
    /\ proxy.ticks < MaxProxyTicks
    /\ proxy' = [proxy EXCEPT !.clock = @ + d, !.ticks = @ + 1]
    /\ UNCHANGED <<engineVars, confVars, enfVars, httpVars, fnVars, phpVars,
                   sinks, session>>

----------------------------------------------------------------------------
(* engine.js: the client-side clarify session *)

\* SCHEMAS, lines 5-40: per domain the fields in order, required ones marked.
Field(name, required) == [field |-> name, required |-> required]

SCHEMAS ==
    [image_generation |->
        << Field("subject", TRUE), Field("style", TRUE), Field("mood", TRUE),
           Field("lighting", FALSE), Field("color_palette", FALSE),
           Field("aspect_ratio", FALSE), Field("negative_elements", FALSE) >>,
     website_building |->
        << Field("purpose", TRUE), Field("target_audience", TRUE),
           Field("pages_needed", TRUE), Field("design_style", FALSE),
           Field("color_scheme", FALSE), Field("features", FALSE),
           Field("tech_stack", FALSE) >>,
     code_generation |->
        << Field("language", TRUE), Field("task", TRUE), Field("io_format", TRUE),
           Field("libraries", FALSE), Field("constraints", FALSE),
           Field("style", FALSE) >>,
     text_llm_task |->
        << Field("task_type", TRUE), Field("tone", TRUE), Field("audience", TRUE),
           Field("format", FALSE), Field("length", FALSE), Field("context", FALSE) >>]

\* Object.entries(KEYWORDS): the domains in insertion order.
DomainOrder ==
    << "image_generation", "website_building", "code_generation", "text_llm_task" >>

SeqRange(q) == { q[i] : i \in 1..Len(q) }

FieldNames == UNION { { f.field : f \in SeqRange(SCHEMAS[d]) } : d \in SeqRange(DomainOrder) }

\* A user input with what the keyword and language scans find in it: the
\* number of keywords of each domain, and the first language named.
Scanned(text, image, website, code, textTask, lang) ==
    [text |-> text,
     scores |-> [image_generation |-> image, website_building |-> website,
                 code_generation |-> code, text_llm_task |-> textTask],
     lang |-> lang]

EngineInputs ==
    { Scanned("", 0, 0, 0, 0, Unset),
      Scanned("a python script", 0, 0, 2, 0, "python"),
      Scanned("logo", 1, 0, 0, 0, "go"),
      Scanned("write a landing page in php", 0, 1, 0, 1, "php"),
      Scanned("summarize it", 0, 0, 0, 1, Unset) }

\* detectIntent, lines 50-59: the first domain of the highest score (the
\* sort is stable).
detectIntent(userInput) ==
    LET best == CHOOSE i \in 1..Len(DomainOrder) :
                    /\ \A j \in 1..Len(DomainOrder) :
                           userInput.scores[DomainOrder[j]]
                               <= userInput.scores[DomainOrder[i]]
                    /\ \A j \in 1..(i - 1) :
                           userInput.scores[DomainOrder[j]]
                               < userInput.scores[DomainOrder[i]]
    IN  DomainOrder[best]

\* A JavaScript value used as a condition.
Truthy(v) == v \notin {Unset, ""}

\* extractInitialFields, lines 61-71.
extractInitialFields(userInput, domain) ==
    LET key == CASE domain = "image_generation" -> "subject"
                 [] domain = "code_generation" -> "task"
                 [] domain = "text_llm_task" -> "task_type"
                 [] domain = "website_building" -> "purpose"
    IN  [f \in FieldNames |->
            IF f = key THEN userInput.text
            ELSE IF f = "language" /\ userInput.lang # Unset THEN userInput.lang
            ELSE Unset]

\* Variant: fields asked earlier are asked again while unfilled.
genQuestions_ignoreAsked(domain, filled, asked) ==
    LET open == SelectSeq(SCHEMAS[domain], LAMBDA f : ~Truthy(filled[f.field]))
        first == SubSeq(open, 1, Min(MAX_Q, Len(open)))
    IN  [i \in 1..Len(first) |-> first[i].field]

\* genQuestions, lines 73-79: the first MAX_Q fields of the schema that are
\* neither filled nor asked, by field name.
genQuestions(domain, filled, asked) ==
    LET open == SelectSeq(SCHEMAS[domain],
                          LAMBDA f : /\ ~Truthy(filled[f.field])
                                     /\ f.field \notin SeqRange(asked))
        first == SubSeq(open, 1, Min(MAX_Q, Len(open)))
    IN  [i \in 1..Len(first) |-> first[i].field]

\* schema.filter(f => f.required).map(f => f.field)
requiredFields(domain) ==
    LET req == SelectSeq(SCHEMAS[domain], LAMBDA f : f.required)
    IN  [i \in 1..Len(req) |-> req[i].field]

\* String.prototype.trim on the answers of AnswerValues.
trim(v) == IF v \in {" ", ""} THEN "" ELSE v

\* Answers the form can submit: some fields of the schema, each with a
\* blank or a real value.
AnswerValues == {" ", "oil"}
Answers(domain) ==
    UNION { [F -> AnswerValues] :
              F \in { G \in SUBSET { f.field : f \in SeqRange(SCHEMAS[domain]) } :
                          Cardinality(G) <= MaxAnswers } }

\* The Error thrown by engineClarify and engineGenerate.
NoActiveSession(fn) == [fn |-> fn, threw |-> TRUE, message |-> "No active session."]

\* engineAnalyze(userInput), lines 327-343.
EngineAnalyze(userInput) ==
    LET domain == detectIntent(userInput)
        filled == extractInitialFields(userInput, domain)
        questions == genQuestions(domain, filled, <<>>)
    IN  /\ session.calls < MaxEngineCalls
        /\ session' =
               [s |-> [active |-> TRUE, original_input |-> userInput.text,
                       domain |-> domain, filled_fields |-> filled,
                       questions_asked |-> questions, round |-> 1,
                       required_fields |-> requiredFields(domain)],
                out |-> [fn |-> "engineAnalyze", threw |-> FALSE,
                         questions |-> questions, completed |-> FALSE],
                clarifies |-> 0,
                calls |-> session.calls + 1]
        /\ UNCHANGED <<engineVars, confVars, enfVars, httpVars, fnVars, phpVars,
                       sinks, proxy>>

\* engineClarify(answers), lines 345-363.
engineClarify(sess, answers) ==
    LET merged == [f \in FieldNames |->
                      IF f \in DOMAIN answers /\ Truthy(trim(answers[f]))
                      THEN answers[f] ELSE sess.filled_fields[f]]
        required == sess.required_fields
        filledReq == Cardinality({ i \in 1..Len(required) : Truthy(merged[required[i]]) })
        done == \/ \A i \in 1..Len(required) : Truthy(merged[required[i]])
                \/ sess.round >= RoundLimit
                \/ (Len(required) # 0 /\ 100 * filledReq >= ProgressDone * Len(required))
        next == genQuestions(sess.domain, merged, sess.questions_asked)
        updated == [sess EXCEPT !.filled_fields = merged, !.round = @ + 1]
    IN  IF done
        THEN [s |-> updated,
              out |-> [fn |-> "engineClarify", threw |-> FALSE,
                       questions |-> <<>>, completed |-> TRUE]]
        ELSE [s |-> [updated EXCEPT !.questions_asked = @ \o next],
              out |-> [fn |-> "engineClarify", threw |-> FALSE,
                       questions |-> next, completed |-> (next = <<>>)]]

EngineClarify ==
    /\ session.calls < MaxEngineCalls
    /\ IF ~session.s.active
       THEN session' = [session EXCEPT !.out = NoActiveSession("engineClarify"),
                                       !.clarifies = @ + 1,
                                       !.calls = @ + 1]
       ELSE \E answers \in Answers(session.s.domain) :
               LET run == engineClarify(session.s, answers)
               IN  session' = [s |-> run.s, out |-> run.out,
                               clarifies |-> session.clarifies + 1,
                               calls |-> session.calls + 1]
    /\ UNCHANGED <<engineVars, confVars, enfVars, httpVars, fnVars, phpVars,
                   sinks, proxy>>

\* engineGenerate(), lines 365-376: throws without a session, else builds
\* the prompts from the session and leaves it as it is.
EngineGenerate ==
    /\ session.calls < MaxEngineCalls
    /\ session' = [session EXCEPT
           !.out = IF ~session.s.active
                   THEN NoActiveSession("engineGenerate")
                   ELSE [fn |-> "engineGenerate", threw |-> FALSE,
                         questions |-> <<>>, completed |-> TRUE],
           !.calls = @ + 1]
    /\ UNCHANGED <<engineVars, confVars, enfVars, httpVars, fnVars, phpVars,
                   sinks, proxy>>

----------------------------------------------------------------------------
(* db.mjs and metrics.mjs: the audit sink and the metric buffers *)

\* metrics.mjs lines 22-26.
recordLatency(latencies, ms) ==
    LET pushed == Append(latencies, ms)
    IN  IF Len(pushed) > LatencyWindow THEN Tail(pushed) ELSE pushed

\* metrics.mjs lines 31-34.
recordConfidence(confidences, score) ==
    LET pushed == Append(confidences, score)
    IN  IF Len(pushed) > ConfidenceWindow THEN Tail(pushed) ELSE pushed

\* What db.prepare(...).run(...) or .get(...) does: it completes or throws.
DbOutcomes == {"ok", "throws"}

\* The value null of getAuditLog.
NullEntry == [id |-> 0, tool |-> "none", status |-> 0]

\* Variant: a failed insert is not caught.
sqliteInsert_noCatch(hasDb, rows, log, entry, outcome) ==
    IF hasDb /\ outcome = "ok"
    THEN [threw |-> FALSE, rows |-> rows \cup {entry}, log |-> log]
    ELSE IF hasDb
    THEN [threw |-> TRUE, rows |-> rows, log |-> log]
    ELSE [threw |-> FALSE, rows |-> rows, log |-> insertAuditLog(log, entry)]

\* db.mjs lines 50-77, whole: with a handle the row is inserted and the
\* function returns; an insert that throws is caught and, as without a
\* handle, the entry goes to the fallback log.
sqliteInsert(hasDb, rows, log, entry, outcome) ==
    IF hasDb /\ outcome = "ok"
    THEN [threw |-> FALSE, rows |-> rows \cup {entry}, log |-> log]
    ELSE [threw |-> FALSE, rows |-> rows, log |-> insertAuditLog(log, entry)]

\* db.mjs lines 79-90, whole: the row of the table if the select finds one,
\* else the first entry of the fallback log with that id, else null.
sqliteGet(hasDb, rows, log, id, outcome) ==
    LET found == { e \in rows : e.id = id }
        hits == { j \in 1..Len(log) : log[j].id = id }
    IN  IF hasDb /\ outcome = "ok" /\ found # {}
        THEN CHOOSE e \in found : TRUE
        ELSE IF hits # {}
        THEN log[CHOOSE j \in hits : \A k \in hits : j <= k]
        ELSE NullEntry

\* logAudit, lines 266-285: an entry under a fresh crypto.randomUUID().
AuditEntry(id) == [id |-> id, tool |-> "synthesis", status |-> 200]

\* insertAuditLog(entry) is called and returns or throws.
InsertAudit(outcome) ==
    LET entry == AuditEntry(sinks.issued + 1)
        run == sqliteInsert(sinks.db, sinks.rows, auditLog, entry, outcome)
    IN  /\ sinks.ops < MaxSinkOps
        /\ auditLog' = run.log
        /\ sinks' = [sinks EXCEPT
               !.rows = run.rows,
               !.issued = @ + 1,
               !.ops = @ + 1,
               !.call = [fn |-> "insertAuditLog", id |-> entry.id,
                         failed |-> (~sinks.db \/ outcome = "throws"),
                         threw |-> run.threw, value |-> entry]]
        /\ UNCHANGED <<engineVars, confVars, enfVars, rateLimitMap, accepted,
                       httpReq, httpRes, fnVars, phpVars, proxy, session>>

\* getAuditLog(id) is called and returns.
LookupAudit(id, outcome) ==
    /\ sinks' = [sinks EXCEPT
           !.call = [fn |-> "getAuditLog", id |-> id, failed |-> FALSE,
                     threw |-> FALSE,
                     value |-> sqliteGet(sinks.db, sinks.rows, auditLog, id, outcome)]]
    /\ UNCHANGED <<engineVars, confVars, enfVars, httpVars, fnVars, phpVars,
                   proxy, session>>

\* recordLatency(ms).
RecordLatency(ms) ==
    /\ sinks.ops < MaxSinkOps
    /\ sinks' = [sinks EXCEPT !.latencies = recordLatency(@, ms), !.ops = @ + 1]
    /\ UNCHANGED <<engineVars, confVars, enfVars, httpVars, fnVars, phpVars,
                   proxy, session>>

\* recordConfidence(score).
RecordConfidence(score) ==
    /\ sinks.ops < MaxSinkOps
    /\ sinks' = [sinks EXCEPT !.confidences = recordConfidence(@, score), !.ops = @ + 1]
    /\ UNCHANGED <<engineVars, confVars, enfVars, httpVars, fnVars, phpVars,
                   proxy, session>>

\* Entries a generator may return in a list: well-formed ones, objects that
\* lack every field or some, null, and a bare string.
HarvestEntries ==
    { GoodFeature, GoodAssumption,
      Entry(Unset, Unset, Unset, Absent),
      Entry(Unset, Unset, "Offline use", -5),
      JsNull, JsString }

\* The shapes the lists arrive in: missing, an array, an object whose values
\* are the entries, or a single primitive.
HarvestInputs ==
    [fn : {"harvestArray"},
     mapper : {"feature", "assumption"},
     input : {JsAbsent, JsSingle(JsString)}
             \cup { JsArray(list) : list \in SeqsUpTo(HarvestEntries, MaxEntries) }
             \cup { JsObject(list) : list \in SeqsUpTo(HarvestEntries, MaxEntries) }]

\* One application of harvestArray with the mapper of lines 379-390.
Harvest ==
    /\ fnIn.fn = "harvestArray"
    /\ fnOut = NoFnOut
    /\ fnOut' = [fn |-> "harvestArray",
                 returned |->
                    IF fnIn.mapper = "feature"
                    THEN harvestArray(fnIn.input, FeatureMapper(fnIn.input))
                    ELSE harvestArray(fnIn.input, AssumptionMapper(fnIn.input))]
    /\ UNCHANGED <<fnIn, httpVars, phpVars, sideVars, engineVars, confVars, enfVars>>

----------------------------------------------------------------------------
(* TF-IDF cosine similarity (src/tests/api.test.mjs, lines 273-311) *)

STOP_WORDS ==
    {"the", "a", "an", "is", "in", "on", "at", "to", "for", "of", "and", "or",
     "with", "that", "this", "it", "be", "are", "was", "were", "by", "as",
     "from", "have", "has", "not", "but", "so"}

\* The words a text is made of, separated by white space.
RawWords == {"Task", "tasks!", "the", "AI", "it's", "ledger", "--"}

\* normalizeText on one word: lower case, every character outside \w
\* replaced by a space, the result split at white space.
normalizeText ==
    [w \in RawWords |->
        CASE w = "Task" -> <<"task">>
          [] w = "tasks!" -> <<"tasks">>
          [] w = "the" -> <<"the">>
          [] w = "AI" -> <<"ai">>
          [] w = "it's" -> <<"it", "s">>
          [] w = "ledger" -> <<"ledger">>
          [] w = "--" -> <<>>]

RECURSIVE Flatten(_)
Flatten(lists) ==
    IF lists = <<>> THEN <<>> ELSE Head(lists) \o Flatten(Tail(lists))

\* Line 281.
tokenize(text) ==
    SelectSeq(Flatten([i \in 1..Len(text) |-> normalizeText[text[i]]]),
              LAMBDA t : Len(t) > 2 /\ t \notin STOP_WORDS)

TokenSet(tokens) == { tokens[i] : i \in 1..Len(tokens) }

\* Math.log((N + 1) / (df + 1)) + 1 for N = 2 documents, in thousandths:
\* ln(3/2) + 1 and ln(1) + 1.
Idf == [df \in 1..2 |-> IF df = 1 THEN 1405 ELSE 1000]

\* Lines 284-302 for two documents: one vector per document, a weight in
\* thousandths for each of its tokens.
buildTfIdf(docs) ==
    LET tokenized == [d \in 1..Len(docs) |-> tokenize(docs[d])]
        df(t) == Cardinality({ d \in 1..Len(docs) : t \in TokenSet(tokenized[d]) })
        tf(tokens, t) == Cardinality({ i \in 1..Len(tokens) : tokens[i] = t })
    IN  [d \in 1..Len(docs) |->
            [t \in TokenSet(tokenized[d]) |->
                (tf(tokenized[d], t) * Idf[df(t)]) \div Len(tokenized[d])]]

RECURSIVE SumOf(_, _)
SumOf(f, S) ==
    IF S = {} THEN 0
    ELSE LET t == CHOOSE u \in S : TRUE IN f[t] + SumOf(f, S \ {t})

\* The integer square root, by bisection.
RECURSIVE SqrtIn(_, _, _)
SqrtIn(n, lo, hi) ==
    IF lo = hi THEN lo
    ELSE LET mid == (lo + hi + 1) \div 2
         IN  IF mid * mid <= n THEN SqrtIn(n, mid, hi) ELSE SqrtIn(n, lo, mid - 1)
Sqrt(n) == SqrtIn(n, 0, 4000)

Dot(vecA, vecB) ==
    SumOf([t \in DOMAIN vecA |->
              vecA[t] * (IF t \in DOMAIN vecB THEN vecB[t] ELSE 0)],
          DOMAIN vecA)
Norm(vec) == SumOf([t \in DOMAIN vec |-> vec[t] * vec[t]], DOMAIN vec)

\* The variant without the guard on the norms: 0 / 0 is NaN (Absent).
cosineSim_unguarded(vecA, vecB) ==
    LET dot == Dot(vecA, vecB) \div 1000
        normA == Norm(vecA)
        normB == Norm(vecB)
    IN  IF Sqrt(normA) * Sqrt(normB) = 0 THEN Absent
        ELSE (dot * 1000) \div ((Sqrt(normA) * Sqrt(normB)) \div 1000)

\* Lines 305-311.  The score is in thousandths, rounded down.
cosineSim(vecA, vecB) ==
    LET dot == Dot(vecA, vecB) \div 1000
        normA == Norm(vecA)
        normB == Norm(vecB)
    IN  IF normA = 0 \/ normB = 0 THEN 0
        ELSE (dot * 1000) \div ((Sqrt(normA) * Sqrt(normB)) \div 1000)

Texts == SeqsUpTo(RawWords, MaxWords)

SimilarityInputs == [fn : {"cosineSim"}, a : Texts, b : Texts]

\* buildTfIdf over the two texts, then cosineSim of the two vectors.
Similarity ==
    /\ fnIn.fn = "cosineSim"
    /\ fnOut = NoFnOut
    /\ LET vecs == buildTfIdf(<<fnIn.a, fnIn.b>>)
       IN  fnOut' = [fn |-> "cosineSim", returned |-> cosineSim(vecs[1], vecs[2])]
    /\ UNCHANGED <<fnIn, httpVars, phpVars, sideVars, engineVars, confVars, enfVars>>

----------------------------------------------------------------------------
InitEngine ==
    /\ now = BootTime
    /\ circuitBreaker = [failures |-> 0, lastFailure |-> 0, tripped |-> FALSE]
    /\ judgeCache = EmptyCache
    /\ pc = [r \in Reqs |-> "idle"]
    /\ features = [r \in Reqs |-> <<>>]
    /\ loc = [r \in Reqs |-> InitLoc]
    /\ judgeCall = [r \in Reqs |-> NoCall]
    /\ result = [r \in Reqs |-> NoResult]

Init ==
    /\ InitEngine
    /\ confIn = NoConfIn
    /\ confOut = NoConfOut
    /\ enfIn = NoEnfIn
    /\ enfOut = NoEnfOut
    /\ InitEdge

Next ==
    \/ \E r \in SeqReqs, list \in FeatureLists, text \in UserInputs :
          StartRequest(r, list, text)
    \/ \E r \in SeqReqs : ClassifyFeature(r)
    \/ \E r \in SeqReqs : CallJudge(r)
    \/ \E r \in SeqReqs, s \in JudgeScores : JudgeSuccess(r, s)
    \/ \E r \in SeqReqs : JudgeFailure(r)
    \/ \E r \in SeqReqs : ResumeLoop(r)
    \/ \E r \in SeqReqs : FinishPass(r)
    \/ \E d \in TickSteps : Tick(d)

Spec == Init /\ [][Next]_vars

\* Two answers of the judge, on either side of its thresholds.
ConcScores == {399, 700}

\* Two requests in flight at once: the validation passes of both slots
\* interleave at their awaits and share the breaker and the cache.  The
\* clock stands still: a tripped breaker stays tripped.
NextConc ==
    \/ \E r \in Reqs, list \in ConcLists, text \in UserInputs :
          StartRequest(r, list, text)
    \/ \E r \in Reqs : ClassifyFeature(r)
    \/ \E r \in Reqs : CallJudge(r)
    \/ \E r \in Reqs, s \in ConcScores : JudgeSuccess(r, s)
    \/ \E r \in Reqs : JudgeFailure(r)
    \/ \E r \in Reqs : ResumeLoop(r)
    \/ \E r \in Reqs : FinishPass(r)

SpecConc == Init /\ [][NextConc]_vars

\* The breaker under concurrent requests and passing time: both slots
\* validate the same one gray-zone feature over and over, the judge answers
\* or fails, and the clock advances.
BreakerScore == 700

NextBreaker ==
    \/ \E r \in Reqs, text \in UserInputs : StartRequest(r, <<GrayFeature>>, text)
    \/ \E r \in Reqs : CallJudge(r)
    \/ \E r \in Reqs : JudgeSuccess(r, BreakerScore)
    \/ \E r \in Reqs : JudgeFailure(r)
    \/ \E r \in Reqs : ResumeLoop(r)
    \/ \E r \in Reqs : FinishPass(r)
    \/ \E d \in TickSteps : Tick(d)

SpecBreaker == Init /\ [][NextBreaker]_vars

\* The drift pass over whole responses: feature lists together with the
\* upstream assumptions, as runValidationPipeline normalised them.
UpstreamAssumption == [assumption |-> "Single currency", confidence_impact |-> -2]

DriftData ==
    [core_functional_components : SeqsUpTo(FeatureKinds, MaxShortLen),
     assumptions_made : { Repeat(UpstreamAssumption, n) : n \in 0..MaxUpstream }]

NextDrift ==
    \/ \E r \in SeqReqs, data \in DriftData, text \in UserInputs :
          StartPass(r, data, text)
    \/ \E r \in SeqReqs : ClassifyFeature(r)
    \/ \E r \in SeqReqs : CallJudge(r)
    \/ \E r \in SeqReqs, s \in JudgeScores : JudgeSuccess(r, s)
    \/ \E r \in SeqReqs : JudgeFailure(r)
    \/ \E r \in SeqReqs : ResumeLoop(r)
    \/ \E r \in SeqReqs : FinishPass(r)

SpecDrift == Init /\ [][NextDrift]_vars

\* The audit sink and the metric buffers on their own.  The process has
\* run for a while: the fallback log and the buffers are empty or one short
\* of full, and initDb did or did not obtain a handle.
Logged(n) == [i \in 1..n |-> AuditEntry(i)]
Samples(n) == [i \in 1..n |-> i]

InitAudit ==
    /\ InitEngine
    /\ confIn = NoConfIn
    /\ confOut = NoConfOut
    /\ enfIn = NoEnfIn
    /\ enfOut = NoEnfOut
    /\ rateLimitMap = [ip \in Ips |-> NoRecord]
    /\ accepted = [ip \in Ips |-> [u \in Urls |-> 0]]
    /\ httpReq = NoReq
    /\ httpRes = NoRes
    /\ fnIn = NoFnIn
    /\ fnOut = NoFnOut
    /\ InitPhp
    /\ InitProxy
    /\ InitSession
    /\ \E n \in {0, AUDIT_LOG_MAX - 1}, m \in {0, LatencyWindow - 1},
          c \in {0, ConfidenceWindow - 1}, hasDb \in BOOLEAN :
          /\ auditLog = Logged(n)
          /\ sinks = [db |-> hasDb, rows |-> {}, latencies |-> Samples(m),
                      confidences |-> Samples(c), issued |-> n, ops |-> 0,
                      call |-> NoSinkCall]

LookupIds == {1, 2}
LatencySamples == {7}
ConfidenceSamples == {80}

NextAudit ==
    \/ \E outcome \in DbOutcomes : InsertAudit(outcome)
    \/ \E id \in LookupIds \cup {sinks.issued, sinks.issued + 1},
          outcome \in DbOutcomes : LookupAudit(id, outcome)
    \/ \E ms \in LatencySamples : RecordLatency(ms)
    \/ \E score \in ConfidenceSamples : RecordConfidence(score)

SpecAudit == InitAudit /\ [][NextAudit]_vars

\* The cache and retry loop of analyze.php, one request at a time.
NextProxy ==
    \/ ProxyEnter
    \/ \E outcome \in AttemptOutcomes : ProxyAttempt(outcome)
    \/ ProxyFinish
    \/ \E d \in ProxyTickSteps : ProxyTick(d)

SpecProxy == Init /\ [][NextProxy]_vars

\* The client-side engine on its own: the calls a page makes.
NextEngine ==
    \/ \E userInput \in EngineInputs : EngineAnalyze(userInput)
    \/ EngineClarify
    \/ EngineGenerate

SpecEngine == Init /\ [][NextEngine]_vars

\* harvestArray alone, over the inputs of HarvestInputs.
InitHarvest ==
    /\ InitEngine
    /\ confIn = NoConfIn
    /\ confOut = NoConfOut
    /\ enfIn = NoEnfIn
    /\ enfOut = NoEnfOut
    /\ InitHttp
    /\ InitPhp
    /\ InitSide
    /\ fnIn \in HarvestInputs
    /\ fnOut = NoFnOut

NextHarvest == Harvest

SpecHarvest == InitHarvest /\ [][NextHarvest]_vars

\* The TF-IDF scorer alone, over the pairs of texts of SimilarityInputs.
InitTfIdf ==
    /\ InitEngine
    /\ confIn = NoConfIn
    /\ confOut = NoConfOut
    /\ enfIn = NoEnfIn
    /\ enfOut = NoEnfOut
    /\ InitHttp
    /\ InitPhp
    /\ InitSide
    /\ fnIn \in SimilarityInputs
    /\ fnOut = NoFnOut

NextTfIdf == Similarity

SpecTfIdf == InitTfIdf /\ [][NextTfIdf]_vars

\* analyze.php's rate limiter: concurrent requests of one client.
NextPhp ==
    \/ \E p \in PhpProcs, opened \in BOOLEAN : PhpEnter(p, opened)
    \/ \E p \in PhpProcs : PhpFlock(p)
    \/ \E p \in PhpProcs : PhpCheck(p)
    \/ \E d \in PhpTickSteps : PhpTick(d)

SpecPhp == Init /\ [][NextPhp]_vars

\* The HTTP server on its own: the requests of one client within one
\* rate-limit window.
LogIds == 1..2

NextHttp ==
    \/ \E ip \in Ips, body \in ExecBodies, upstream \in UpstreamOutcomes :
          ExecuteTool(ip, body, upstream)
    \/ \E ip \in Ips, payload \in ValidatePayloads, outcome \in PipelineOutcomes :
          Validate(ip, "/api/validate", payload, outcome)
    \/ \E ip \in Ips, id \in LogIds : GetLog(ip, id)

SpecHttp == Init /\ [][NextHttp]_vars

\* The rate limiter on its own: well-formed requests to the two endpoints
\* (clarify-mode validations, which write no audit entry), and time passing.
NextRate ==
    \/ \E ip \in Ips :
          ExecuteTool(ip, ToolBody("chatgpt", Str(<<"Build a tracker">>)), "ok")
    \/ \E ip \in Ips :
          Validate(ip, "/api/validate",
                   [kind |-> "json", mode |-> "clarify", answers |-> FALSE],
                   Answer(RawResponse(0, JsAbsent), DriftResult(0, <<>>)))
    \/ \E d \in TickSteps : Tick(d)

SpecRate == Init /\ [][NextRate]_vars

\* The confidence scorer alone, over the inputs of ConfInputs.
InitConf ==
    /\ InitEngine
    /\ confIn \in ConfInputs
    /\ confOut = NoConfOut
    /\ enfIn = NoEnfIn
    /\ enfOut = NoEnfOut
    /\ InitEdge

NextConf == Recompute

SpecConf == InitConf /\ [][NextConf]_vars

\* enforceConsistency alone, over the inputs of EnforceInputs.
InitEnforce ==
    /\ InitEngine
    /\ confIn = NoConfIn
    /\ confOut = NoConfOut
    /\ enfIn \in EnforceInputs
    /\ enfOut = NoEnfOut
    /\ InitEdge

NextEnforce == Enforce

SpecEnforce == InitEnforce /\ [][NextEnforce]_vars

----------------------------------------------------------------------------
(* Properties of the judge client and the circuit breaker *)

\* Slot r enters llmJudgeSimilarity in this step.
EntersJudge(r) == loc'[r].judgeInvocations = loc[r].judgeInvocations + 1

\* The fetch of slot r fails in this step.
FetchFails(r) == judgeCall[r].source = "pending" /\ judgeCall'[r].source = "error"

\* C1.  Fail-fast: a judge call entered while the breaker is tripped and
\* now - lastFailure < resetTime returns {score: null, source:
\* 'circuit-breaker'}, issues no network request, and leaves the breaker
\* and the cache as they were.
C1_FailFast ==
    [][\A r \in Reqs :
        (EntersJudge(r) /\ circuitBreaker.tripped
            /\ now - circuitBreaker.lastFailure < resetTime)
        => /\ judgeCall'[r].score = NullScore
           /\ judgeCall'[r].source = "circuit-breaker"
           /\ ~judgeCall'[r].net
           /\ pc'[r] = "resume"
           /\ circuitBreaker' = circuitBreaker
           /\ judgeCache' = judgeCache]_vars

\* A call was skipped half a window after the last failure.
C1_Witness ==
    \E r \in Reqs :
        /\ judgeCall[r].source = "circuit-breaker"
        /\ judgeCall[r].entryTripped
        /\ judgeCall[r].entryElapsed > 0
        /\ judgeCall[r].entryElapsed < resetTime

\* C2.  Trip: every failed fetch adds one to failures and stamps lastFailure
\* with the time of that failure; the breaker is tripped exactly when
\* failures has reached 5, so the fifth failure after failures = 0 trips it
\* and fewer than 5 do not.
C2_Trip ==
    /\ [](circuitBreaker.tripped <=> circuitBreaker.failures >= TripThreshold)
    /\ [][\A r \in Reqs :
            FetchFails(r)
            => /\ circuitBreaker'.failures = circuitBreaker.failures + 1
               /\ circuitBreaker'.lastFailure = now
               /\ circuitBreaker'.tripped =
                      (circuitBreaker.failures + 1 >= TripThreshold)]_vars

\* The fifth failure has just tripped the breaker.
C2_Witness ==
    \E r \in Reqs :
        /\ judgeCall[r].source = "error"
        /\ judgeCall[r].entryFailures = TripThreshold - 1
        /\ ~judgeCall[r].entryTripped
        /\ circuitBreaker.tripped
        /\ circuitBreaker.failures = TripThreshold
        /\ circuitBreaker.lastFailure = now

\* The call proceeds past the breaker: cache lookup, then fetch.
Proceeds(r) ==
    \/ judgeCall'[r].source = "cache" /\ pc'[r] = "resume"
    \/ judgeCall'[r].source = "pending" /\ judgeCall'[r].net /\ pc'[r] = "await"

\* C3 as stated: a call entered while tripped with now - lastFailure >=
\* resetTime, equality included, clears tripped and failures and proceeds.
C3_Original ==
    [][\A r \in Reqs :
        (EntersJudge(r) /\ circuitBreaker.tripped
            /\ now - circuitBreaker.lastFailure >= resetTime)
        => /\ ~circuitBreaker'.tripped
           /\ circuitBreaker'.failures = 0
           /\ Proceeds(r)]_vars

\* C3, amended.  Recovery needs now - lastFailure > resetTime: such a call
\* clears tripped and failures and proceeds to the cache lookup / fetch;
\* a call entered when the difference equals resetTime exactly is still
\* answered 'circuit-breaker' and leaves the breaker tripped.
C3_Recovery ==
    [][\A r \in Reqs :
        (EntersJudge(r) /\ circuitBreaker.tripped)
        => /\ now - circuitBreaker.lastFailure > resetTime
                => /\ ~circuitBreaker'.tripped
                   /\ circuitBreaker'.failures = 0
                   /\ circuitBreaker'.lastFailure = circuitBreaker.lastFailure
                   /\ Proceeds(r)
           /\ now - circuitBreaker.lastFailure = resetTime
                => /\ circuitBreaker' = circuitBreaker
                   /\ judgeCall'[r].source = "circuit-breaker"
                   /\ judgeCall'[r].score = NullScore
                   /\ pc'[r] = "resume"]_vars

\* A call entered after the window recovered the breaker and went to the
\* network.
C3_Witness ==
    \E r \in Reqs :
        /\ judgeCall[r].entryTripped
        /\ judgeCall[r].entryElapsed > resetTime
        /\ judgeCall[r].source = "pending"
        /\ pc[r] = "await"
        /\ ~circuitBreaker.tripped
        /\ circuitBreaker.failures = 0

\* C4.  A failed or skipped judge call reaches the caller as score = null,
\* never as an exception; the feature then keeps the TF-IDF verdict
\* (trace_score = TF-IDF score, trace_status = 'assumption',
\* similarity_source = 'tfidf'); each failed fetch adds exactly 1 to
\* failures.
C4_JudgeFailureAbsorbed ==
    /\ [](\A r \in Reqs :
            /\ pc[r] \in {"idle", "loop", "await", "resume", "done"}
            /\ judgeCall[r].source \in {"error", "circuit-breaker"}
                   => judgeCall[r].score = NullScore /\ pc[r] = "resume")
    /\ [][\A r \in Reqs :
            /\ (pc[r] = "resume" /\ pc'[r] # "resume"
                    /\ judgeCall[r].score = NullScore)
                   => LET i == loc[r].idx
                          f == features'[r][i]
                      IN  /\ pc'[r] = "loop"
                          /\ loc'[r].idx = i + 1
                          /\ f.trace_score = SimTable[Description(features[r][i])]
                          /\ f.trace_status = "assumption"
                          /\ f.similarity_source = "tfidf"
            /\ FetchFails(r)
                   => circuitBreaker'.failures = circuitBreaker.failures + 1]_vars

\* A pass went on after a failed fetch: the feature it was judging carries
\* the TF-IDF verdict, and the pass has returned.
C4_Witness ==
    \E r \in Reqs :
        /\ pc[r] = "done"
        /\ result[r].returned
        /\ circuitBreaker.failures > 0
        /\ circuitBreaker.lastFailure = now
        /\ \E i \in 1..Len(features[r]) :
               /\ features[r][i].similarity_source = "tfidf"
               /\ features[r][i].trace_status = "assumption"
               /\ features[r][i].trace_score = 500

----------------------------------------------------------------------------
(* Properties of the drift detector *)

TraceStatuses == {"traceable", "assumption", "speculative"}

\* C5.  After a validation pass returns, every feature of
\* core_functional_components carries a trace_status in {traceable,
\* assumption, speculative}, also when the judge-call budget ran out before
\* the last feature.
C5_EveryFeatureClassified ==
    \A r \in Reqs :
        pc[r] = "done"
        => \A i \in 1..Len(features[r]) :
               features[r][i].trace_status \in TraceStatuses

\* C6.  llm_judge_calls of the returned ValidationLogic, the running
\* counter, and the number of judge invocations made during the pass never
\* exceed MAX_JUDGE_CALLS_PER_REQ.
C6_JudgeBudget ==
    \A r \in Reqs :
        /\ loc[r].llmJudgeCalls <= MAX_JUDGE_CALLS_PER_REQ
        /\ loc[r].judgeInvocations <= MAX_JUDGE_CALLS_PER_REQ
        /\ result[r].returned
               => result[r].llm_judge_calls <= MAX_JUDGE_CALLS_PER_REQ

\* A pass over more gray-zone features than the budget returned, having
\* spent the whole budget.
C6_Witness ==
    \E r \in Reqs :
        /\ result[r].returned
        /\ Len(features[r]) > MAX_JUDGE_CALLS_PER_REQ
        /\ result[r].llm_judge_calls = MAX_JUDGE_CALLS_PER_REQ
        /\ loc[r].judgeInvocations = MAX_JUDGE_CALLS_PER_REQ

\* C7.  domain_drift_instances and speculative_features_flagged have the
\* same length after every loop iteration and in every ValidationLogic
\* returned.
C7_DriftParity ==
    \A r \in Reqs :
        /\ Len(loc[r].driftInstances) = Len(loc[r].speculativeFlagged)
        /\ result[r].returned
               => Len(result[r].domain_drift_instances)
                  = Len(result[r].speculative_features_flagged)

\* A returned ValidationLogic with two drift instances, one from TF-IDF and
\* one from the judge.
C7_Witness ==
    \E r \in Reqs :
        /\ result[r].returned
        /\ Len(result[r].domain_drift_instances) = 2
        /\ \E i, j \in 1..2 :
               /\ result[r].domain_drift_instances[i].source = "tfidf"
               /\ result[r].domain_drift_instances[j].source = "llm-judge-groq"

----------------------------------------------------------------------------
(* Properties of the confidence scorer, checked under SpecConf *)

\* The sub-scores as the scorer uses them, in hundredths.
InIC == clampScore(confIn.data.input_clarity, DefaultIC)
InDC == clampScore(confIn.validationLogic.domain_consistency_computed, DefaultDC)
InRC == Cardinality(covered(confIn.data.non_functional_requirements)) * 2000
InLC == clampScore(confIn.data.logical_coherence, DefaultLC)
InConsistency == confIn.validationLogic.internal_consistency_check
InAssumptions == Len(confIn.data.assumptions_made)

\* round2(0.30*IC + 0.30*DC + 0.20*RC + 0.20*LC) clamped to [0,100].
Weighted(IC, DC, RC, LC) ==
    LET r == (2 * (30 * IC + 30 * DC + 20 * RC + 20 * LC) + 100) \div 200
    IN  IF r < 0 THEN 0 ELSE IF r > 10000 THEN 10000 ELSE r

\* C8.  final_score lies in [0,100] and server_computed is true, for
\* sub-scores of any range, any NFR list and any number of assumptions.
C8_FinalScoreBounded ==
    confOut.returned
    => /\ confOut.final_score >= 0
       /\ confOut.final_score <= 10000
       /\ confOut.server_computed = TRUE

\* All sub-scores 0 and ten or more assumptions: the raw score is negative
\* and the result is 0.
C8_Witness ==
    /\ confOut.returned
    /\ confIn.data.input_clarity = 0
    /\ confIn.data.logical_coherence = 0
    /\ confIn.validationLogic.domain_consistency_computed = 0
    /\ confIn.data.non_functional_requirements = <<>>
    /\ InAssumptions >= 10
    /\ confOut.final_score = 0

\* C9.  With the check 'PASS', DC >= 75 and no assumptions, no penalty is
\* applied and final_score = round2(0.30*IC + 0.30*DC + 0.20*RC + 0.20*LC)
\* clamped to [0,100]; the weighted sum of IC=80, DC=80, RC=70, LC=85 is
\* 79.00.
C9_NoPenaltyScore ==
    /\ (confOut.returned /\ InConsistency = "PASS" /\ InDC >= 7500
            /\ InAssumptions = 0)
         => /\ confOut.final_score = Weighted(InIC, InDC, InRC, InLC)
            /\ confOut.logical_coherence = (InLC + 50) \div 100
            /\ confOut.assumption_penalty = 0
    /\ finalScore(8000, 8000, 7000, 8500, 0) = 7900

\* IC=80, DC=80, three of five NFR categories (RC=60), LC=85, 'PASS', no
\* assumptions: 77.00.
C9_Witness ==
    /\ confOut.returned
    /\ confIn.data.input_clarity = 8000
    /\ confIn.validationLogic.domain_consistency_computed = 8000
    /\ InRC = 6000
    /\ confIn.data.logical_coherence = 8500
    /\ InConsistency = "PASS"
    /\ InAssumptions = 0
    /\ confOut.final_score = 7700

\* C10.  With the check not 'PASS', DC >= 75 and no assumptions, LC is
\* lowered by 10 before the weighted sum.
C10_ConsistencyPenaltyTen ==
    (confOut.returned /\ InConsistency # "PASS" /\ InDC >= 7500
        /\ InAssumptions = 0)
    => confOut.final_score
       = Weighted(InIC, InDC, InRC, IF InLC > 1000 THEN InLC - 1000 ELSE 0)

\* C11.  With the check 'PASS', DC < 75 and no assumptions, LC is lowered by
\* 5 before the weighted sum (IC=80, DC=60, RC=70, LC=85 gives 72.00); with
\* DC >= 75 it is not lowered.
C11_DcPenaltyFive ==
    (confOut.returned /\ InConsistency = "PASS" /\ InAssumptions = 0)
    => confOut.final_score
       = Weighted(InIC, InDC, InRC,
                  IF InDC < 7500
                  THEN (IF InLC > 500 THEN InLC - 500 ELSE 0)
                  ELSE InLC)

RECURSIVE SumAbs(_)
SumAbs(impacts) ==
    IF impacts = <<>> THEN 0
    ELSE (IF Head(impacts) < 0 THEN -Head(impacts) ELSE Head(impacts))
         + SumAbs(Tail(impacts))

\* C12.  The assumption penalty is min(cap, max(flatPenalty, customPenalty))
\* with flatPenalty = min(count * unitCost, cap) and customPenalty the sum
\* of |confidence_impact|: five assumptions of impact -5 yield the cap.
\* Stated on assumption_penalty (tenths, negative), with the code's cap and
\* unit cost.
C12_CustomPenalty ==
    confOut.returned
    => LET flat == Min(InAssumptions * UnitCost, PenaltyCap)
           custom == 100 * SumAbs(confIn.data.assumptions_made)
           claimed == Min(PenaltyCap, Max(flat, custom))
       IN  confOut.assumption_penalty = -((claimed + 5) \div 10)

\* C13.  enforceConsistency returns null when the drift-instance list and
\* the speculative-flagged list have equal length; when the lengths differ
\* it returns a non-null diagnostic whose first entry has
\* check = 'drift_spec_parity'.
C13_ParityDiagnostic ==
    enfOut.returned
    => IF Len(enfIn.validationLogic.domain_drift_instances)
          = Len(enfIn.validationLogic.speculative_features_flagged)
       THEN enfOut.value.isNull
       ELSE /\ ~enfOut.value.isNull
            /\ Len(enfOut.value.inconsistencies) >= 1
            /\ enfOut.value.inconsistencies[1].check = "drift_spec_parity"

\* The features of slot r whose final trace_status is st.
WithStatus(r, st) ==
    { i \in 1..Len(features[r]) : features[r][i].trace_status = st }

\* C14.  domain_consistency_computed is traceableCount / total * 100 rounded
\* to two decimals (half up), total being the number of features presented
\* and traceableCount the number whose final trace_status is 'traceable';
\* it is 100 when total = 0 and always lies in [0, 100].
C14_DomainConsistency ==
    \A r \in Reqs :
        result[r].returned
        => LET total == Len(features[r])
               traceable == Cardinality(WithStatus(r, "traceable"))
               dc == result[r].domain_consistency_computed
           IN  /\ dc \in 0..10000
               /\ total = 0 => dc = 10000
               /\ total > 0 =>
                     /\ 2 * total * dc - total <= 2 * traceable * 10000
                     /\ 2 * traceable * 10000 < 2 * total * dc + total

\* A pass over nine features, six of them traceable, returned 66.67.
C14_Witness ==
    \E r \in Reqs :
        /\ result[r].returned
        /\ Len(features[r]) = 9
        /\ Cardinality(WithStatus(r, "traceable")) = 6
        /\ result[r].domain_consistency_computed = 6667

\* C15.  internal_consistency_check is 'PASS' if and only if no feature
\* ended the pass with final trace_status 'speculative', which is when
\* domain_drift_instances is empty; otherwise it is 'PARTIAL'.
C15_PassIffNoSpeculative ==
    \A r \in Reqs :
        result[r].returned
        => /\ result[r].internal_consistency_check \in {"PASS", "PARTIAL"}
           /\ result[r].internal_consistency_check = "PASS"
                 <=> WithStatus(r, "speculative") = {}
           /\ result[r].internal_consistency_check = "PASS"
                 <=> result[r].domain_drift_instances = <<>>

\* A pass returned 'PARTIAL' for a list whose only speculative feature was
\* made so by the judge, next to a feature that stayed an assumption.
C15_Witness ==
    \E r \in Reqs :
        /\ result[r].returned
        /\ result[r].internal_consistency_check = "PARTIAL"
        /\ WithStatus(r, "assumption") # {}
        /\ \A i \in WithStatus(r, "speculative") :
              features[r][i].similarity_source = "llm-judge-groq"

\* C16.  When the judge returns a non-null score s for a gray-zone feature,
\* score, status and source are all overwritten: trace_score = s,
\* trace_status = traceable if s >= 0.7, assumption if 0.4 <= s < 0.7,
\* speculative if s < 0.4, and similarity_source = 'llm-judge-<source>' with
\* source in {groq, cache}; similarity_source is 'tfidf' in every other
\* case.
C16_JudgeOverwrite ==
    [][\A r \in Reqs :
        LET i == loc[r].idx
            s == judgeCall[r].score
            f == features'[r][i]
        IN  /\ (pc[r] = "resume" /\ pc'[r] # "resume" /\ s # NullScore)
                => /\ judgeCall[r].source \in {"groq", "cache"}
                   /\ f.trace_score = s
                   /\ s >= 700 => f.trace_status = "traceable"
                   /\ (s >= 400 /\ s < 700) => f.trace_status = "assumption"
                   /\ s < 400 => f.trace_status = "speculative"
                   /\ f.similarity_source = "llm-judge-" \o judgeCall[r].source
            /\ (pc[r] = "resume" /\ pc'[r] # "resume" /\ s = NullScore)
                => f.similarity_source = "tfidf"
            /\ (pc[r] = "loop" /\ loc'[r].idx = i + 1)
                => f.similarity_source = "tfidf"]_vars

\* A pass ended with one feature the judge made traceable over the network
\* (0.70) and another it made traceable from the cache, both gray for TF-IDF.
C16_Witness ==
    \E r \in Reqs :
        /\ pc[r] = "done"
        /\ \E i, j \in 1..Len(features[r]) :
              /\ features[r][i].similarity_source = "llm-judge-groq"
              /\ features[r][j].similarity_source = "llm-judge-cache"
              /\ features[r][i].trace_score = 700
              /\ features[r][j].trace_score = 700
              /\ features[r][i].trace_status = "traceable"
              /\ features[r][j].trace_status = "traceable"
              /\ SimTable[Description(features[r][i])] = 500

\* The features of slot r that the judge settled with a non-null score.
Judged(r) ==
    { i \in 1..Len(features[r]) :
        features[r][i].similarity_source \in {"llm-judge-groq", "llm-judge-cache"} }

\* The gray-zone features of slot r the loop has reached: those before idx,
\* and the one at idx while its judge call is under way.
GrayReached(r) ==
    LET last == IF pc[r] \in {"await", "resume"} THEN loc[r].idx ELSE loc[r].idx - 1
    IN  { i \in 1..last :
            analyzeSimilarity(Description(features[r][i]),
                              loc[r].userInputText).status = "assumption" }

\* C17 as stated: the judge-call counter counts only the invocations that
\* returned a non-null score, so the llm_judge_calls reported is the number
\* of features the judge settled.
C17_Original ==
    \A r \in Reqs :
        result[r].returned
        => result[r].llm_judge_calls = Cardinality(Judged(r))

\* C17, amended.  The counter is advanced once for every judge invocation,
\* before the call and whatever it returns: it equals the number of
\* gray-zone features reached, and a pass can spend its budget on calls
\* that all returned null.
C17_CountsEveryInvocation ==
    \A r \in Reqs :
        /\ loc[r].llmJudgeCalls = Cardinality(GrayReached(r))
        /\ loc[r].llmJudgeCalls = loc[r].judgeInvocations
        /\ result[r].returned
              => /\ result[r].llm_judge_calls = Cardinality(GrayReached(r))
                 /\ result[r].llm_judge_calls >= Cardinality(Judged(r))

\* A pass over nine gray-zone features spent the whole budget on calls that
\* returned null (failed or skipped by the breaker), settled none of them
\* by the judge and left the ninth unprocessed.
C17_Witness ==
    \E r \in Reqs :
        /\ result[r].returned
        /\ Len(features[r]) > MAX_JUDGE_CALLS_PER_REQ
        /\ result[r].llm_judge_calls = MAX_JUDGE_CALLS_PER_REQ
        /\ Judged(r) = {}
        /\ circuitBreaker.tripped

\* C18.  No retries: a judge invocation issues at most one network request
\* (the request is issued on entering the call only, and when it settles,
\* with a score or a failure, the call returns); within one pass the judge
\* is invoked at most once per feature (only for the feature at idx, not
\* yet settled, and its answer moves idx on); a failed attempt is never
\* re-issued.
C18_NoRetries ==
    /\ [](\A r \in Reqs :
            /\ loc[r].judgeInvocations <= loc[r].idx
            /\ loc[r].judgeInvocations <= Len(features[r]))
    /\ [][\A r \in Reqs :
            LET i == loc[r].idx
            IN  /\ (pc[r] = "await" /\ judgeCall'[r] # judgeCall[r])
                    => /\ pc'[r] = "resume"
                       /\ judgeCall'[r].source \in {"groq", "error"}
                /\ (pc'[r] = "await" /\ pc[r] # "await")
                    => EntersJudge(r) /\ judgeCall'[r].net
                /\ EntersJudge(r)
                    => /\ pc[r] = "loop"
                       /\ loc'[r].idx = i
                       /\ features[r][i].trace_status = Unset
                /\ (pc[r] \in {"await", "resume"} /\ pc'[r] = "loop")
                    => /\ loc'[r].idx = i + 1
                       /\ features'[r][i].trace_status # Unset
                /\ FetchFails(r)
                    => /\ pc'[r] = "resume"
                       /\ loc'[r].judgeInvocations = loc[r].judgeInvocations]_vars

\* A pass over two gray-zone features ended after both fetches failed: two
\* invocations, two failures counted, both features left to TF-IDF.
C18_Witness ==
    \E r \in Reqs :
        /\ pc[r] = "done"
        /\ Len(features[r]) = 2
        /\ loc[r].judgeInvocations = 2
        /\ circuitBreaker.failures = 2
        /\ \A i \in 1..2 : features[r][i].similarity_source = "tfidf"

\* Feature i of slot q was settled by a judge call over the network that
\* succeeded for the pair behind cache key k; its answer is the trace_score.
SucceededFor(q, i, k) ==
    /\ features[q][i].similarity_source = "llm-judge-groq"
    /\ cacheKey(Description(features[q][i]), loc[q].userInputText) = k

\* C19.  Judge cache: once a judge call for a pair has succeeded with a
\* numeric score, every later call for the same pair made while the breaker
\* is not tripped returns that score with source 'cache' and issues no
\* network request; cache entries are never removed, and only successful
\* numeric scores are written.
C19_CacheHit ==
    [][/\ \A r, q \in Reqs :
            (EntersJudge(r) /\ ~circuitBreaker.tripped)
            => \A i \in 1..Len(features[q]) :
                  SucceededFor(q, i, judgeCall'[r].key)
                  => /\ judgeCall'[r].source = "cache"
                     /\ judgeCall'[r].score = features[q][i].trace_score
                     /\ ~judgeCall'[r].net
       /\ DOMAIN judgeCache \subseteq DOMAIN judgeCache'
       /\ judgeCache' # judgeCache
            => \E r \in Reqs :
                  /\ pc[r] = "await"
                  /\ judgeCall'[r].source = "groq"
                  /\ judgeCall'[r].score \in JudgeScores
                  /\ judgeCache' = CacheSet(judgeCache, judgeCall[r].key,
                                            judgeCall'[r].score)]_vars

\* C20.  Cache writes are idempotent under concurrent requests: once a
\* score is stored under a key, the stored value never changes afterwards.
C20_StoredValueStable ==
    [][\A k \in DOMAIN judgeCache :
        k \in DOMAIN judgeCache' /\ judgeCache'[k] = judgeCache[k]]_vars

\* The TF-IDF classification of the feature slot r stands at.
TfidfStatus(r) ==
    classify(SimTable[Description(features[r][loc[r].idx])])

C27_ConfiguredThresholds ==
    \A r \in Reqs :
        \A i \in Judged(r) :
            LET s == features[r][i].trace_score
                st == features[r][i].trace_status
            IN  /\ st = "traceable" <=> s >= LLM_TRACEABLE
                /\ st = "assumption" <=> (s >= LLM_ASSUMPTION /\ s < LLM_TRACEABLE)

----------------------------------------------------------------------------
(* Properties of concurrent requests *)

\* The judge calls of slot r that have been entered and not yet answered to
\* the loop: the invocations made less the gray-zone features settled.
Outstanding(r) ==
    loc[r].judgeInvocations
    - Cardinality({ i \in 1..(loc[r].idx - 1) :
                      analyzeSimilarity(Description(features[r][i]),
                                        loc[r].userInputText).status = "assumption" })

\* C21.  Within one request the drift loop is strictly sequential: at most
\* one judge call of the request is outstanding at any time (exactly one
\* while the request is suspended, for the feature at idx), the features
\* settled are exactly those before idx (list order), and the per-request
\* cap is never exceeded; meanwhile a suspended request does not keep the
\* other request from taking its next step.
C21_SequentialLoop ==
    \A r \in Reqs :
        /\ \A i \in 1..Len(features[r]) :
              features[r][i].trace_status # Unset <=> i < loc[r].idx
        /\ Outstanding(r) = IF pc[r] \in {"await", "resume"} THEN 1 ELSE 0
        /\ judgeCall[r].source = "pending" <=> pc[r] = "await"
        /\ pc[r] = "await"
              => judgeCall[r].key =
                   cacheKey(Description(features[r][loc[r].idx]), loc[r].userInputText)
        /\ loc[r].llmJudgeCalls <= MAX_JUDGE_CALLS_PER_REQ
        /\ loc[r].judgeInvocations <= MAX_JUDGE_CALLS_PER_REQ
        /\ pc[r] = "await"
              => \A q \in Reqs \ {r} :
                    /\ pc[q] \in {"idle", "done"}
                          => ENABLED (\E list \in ConcLists, text \in UserInputs :
                                         StartRequest(q, list, text))
                    /\ pc[q] = "loop"
                          => ENABLED (ClassifyFeature(q) \/ CallJudge(q) \/ FinishPass(q))
                    /\ pc[q] = "await" => ENABLED JudgeFailure(q)
                    /\ pc[q] = "resume" => ENABLED ResumeLoop(q)

\* While one request is suspended in a judge call, the other has run a
\* list longer than the budget to its end and spent exactly the budget.
C21_Witness ==
    \E r, q \in Reqs :
        /\ pc[r] = "await"
        /\ pc[q] = "done"
        /\ Len(features[q]) > MAX_JUDGE_CALLS_PER_REQ
        /\ result[q].llm_judge_calls = MAX_JUDGE_CALLS_PER_REQ
        /\ features[q][MAX_JUDGE_CALLS_PER_REQ].trace_status # Unset
        /\ features[q][MAX_JUDGE_CALLS_PER_REQ + 1].trace_status = Unset

----------------------------------------------------------------------------
(* HTTP contract *)

\* The last request was a generate-mode validation whose pipeline ran to
\* its end, so that a final_score was recomputed.
Scored ==
    /\ httpReq.url = "/api/validate"
    /\ httpRes.final_score # Absent

ToolRequest ==
    /\ httpReq.url = "/api/execute-tool"
    /\ httpReq.body.kind = "json"
    /\ httpRes.status # 429

\* C24: a POST /api/execute-tool that passes the rate limit and names a
\* tool outside the allowlist, or whose prompt is missing, not a string or
\* holds a deny-listed substring, is answered 400 without an upstream call.
C24_UnsafeRequestRefused ==
    ( /\ ToolRequest
      /\ \/ httpReq.body.tool \notin TOOL_ALLOWLIST
         \/ sanitizePrompt(httpReq.body.prompt) = NullPrompt )
    => /\ httpRes.status = 400
       /\ ~httpRes.upstream

\* C25: a POST /api/execute-tool answered 200 carries logId and duration_ms,
\* and the audit log holds an entry with that id, which GET /api/logs/<logId>
\* then returns.
C25_ToolCallAudited ==
    (ToolRequest /\ httpRes.status = 200)
    => /\ {"logId", "duration_ms"} \subseteq httpRes.keys
       /\ getAuditLog(auditLog, httpRes.id) # {}

\* The limit of the endpoint the last request went to.
EndpointLimit == IF httpReq.url = "/api/execute-tool" THEN EXECUTE_MIN ELSE VALIDATE_MIN

\* C29: a POST to /api/execute-tool or /api/validate is answered 429 only
\* when the client already had as many requests to that same endpoint
\* accepted in the current window as the endpoint's limit (10 and 30);
\* requests to the other endpoint do not count against it.
C29_PerEndpointLimit ==
    (httpReq.url \in Urls /\ httpRes.status = 429)
    => accepted[httpReq.ip][httpReq.url] >= EndpointLimit

\* C26: whatever shape the list arrives in and whatever its entries are,
\* harvestArray with the pipeline's mappers returns a list (it does not
\* throw), one normalised entry per input entry, and every assumption
\* carries a confidence_impact, -2 when the generator gave none.
C26_IngestionNeverThrows ==
    fnOut.fn = "harvestArray" =>
        /\ ~fnOut.returned.threw
        /\ Len(fnOut.returned.value) = Len(fnIn.input.items)
        /\ fnIn.mapper = "assumption" =>
              \A i \in 1..Len(fnOut.returned.value) :
                 fnOut.returned.value[i].confidence_impact =
                    IF fnIn.input.items[i].confidence_impact = Absent
                    THEN -2 ELSE fnIn.input.items[i].confidence_impact

\* C28: two texts whose token sets (after normalisation, removal of tokens
\* of length <= 2 and of stop words) are disjoint have TF-IDF cosine
\* similarity exactly 0; in particular a text without tokens scores 0, and
\* the score is never NaN.
C28_DisjointScoresZero ==
    fnOut.fn = "cosineSim" =>
        /\ fnOut.returned # Absent
        /\ TokenSet(tokenize(fnIn.a)) \cap TokenSet(tokenize(fnIn.b)) = {}
              => fnOut.returned = 0

\* Two texts with tokens but none in common, scored 0.
C28_Witness ==
    /\ fnOut.fn = "cosineSim"
    /\ tokenize(fnIn.a) # <<>>
    /\ tokenize(fnIn.b) # <<>>
    /\ TokenSet(tokenize(fnIn.a)) \cap TokenSet(tokenize(fnIn.b)) = {}
    /\ fnOut.returned = 0

\* C30: for one client IP, at most RATE_LIMIT_MAX (5) requests that opened
\* the state file pass checkRateLimit within any window of 60 seconds,
\* also when requests run concurrently.
C30_AtMostFivePerWindow ==
    Len(Unexpired(php.passes, php.clock - RATE_LIMIT_WINDOW)) <= RATE_LIMIT_MAX

----------------------------------------------------------------------------
(* Properties of the shared breaker, checked under SpecBreaker *)

\* C35: in every reachable state, whatever the interleaving of the two
\* requests, the breaker is tripped exactly when failures >= 5, and
\* failures is never negative.
C35_TrippedIffFiveFailures ==
    /\ circuitBreaker.tripped <=> circuitBreaker.failures >= TripThreshold
    /\ circuitBreaker.failures >= 0

\* A call that was in flight when the breaker tripped has failed too.
C35_Witness ==
    /\ circuitBreaker.tripped
    /\ circuitBreaker.failures = TripThreshold + 1

\* C36: a judge success leaves the breaker as it is; failures goes down
\* only to 0 and only in a step taken with the breaker tripped and more
\* than resetTime after the last failure.  Failures therefore add up
\* across successes and across any span of time until the fifth trips.
C36_FailuresNeverDecay ==
    [][ /\ judgeCache' # judgeCache => circuitBreaker' = circuitBreaker
        /\ circuitBreaker'.failures < circuitBreaker.failures =>
              /\ circuitBreaker.tripped
              /\ now - circuitBreaker.lastFailure > resetTime
              /\ circuitBreaker'.failures = 0
              /\ ~circuitBreaker'.tripped ]_vars

\* Four failures are still counted after a success and more than resetTime
\* after the last of them, with a call in flight whose failure would trip.
C36_Witness ==
    /\ judgeCache # EmptyCache
    /\ circuitBreaker.failures = TripThreshold - 1
    /\ now - circuitBreaker.lastFailure > resetTime
    /\ \E r \in Reqs : pc[r] = "await"

\* The cache key of the feature the loop of slot r stands at.
CurrentKey(r) ==
    cacheKey(Description(features[r][loc[r].idx]), loc[r].userInputText)

\* The breaker is tripped and the reset window has not elapsed.
Blocking ==
    /\ circuitBreaker.tripped
    /\ now - circuitBreaker.lastFailure <= resetTime

\* C37: a judge call issued while the breaker is tripped and inside the
\* reset window returns {score: null, source: 'circuit-breaker'} also when
\* the pair's score is cached, and the feature is then settled with its
\* TF-IDF score and verdict.
C37_BreakerBeforeCache ==
    [][\A r \in Reqs :
        /\ ( /\ pc[r] = "loop" /\ pc'[r] \in {"resume", "await"}
             /\ Blocking
             /\ CurrentKey(r) \in DOMAIN judgeCache )
           => /\ pc'[r] = "resume"
              /\ judgeCall'[r].source = "circuit-breaker"
              /\ judgeCall'[r].score = NullScore
        /\ ( /\ pc[r] = "resume" /\ pc'[r] = "loop"
             /\ judgeCall[r].source = "circuit-breaker" )
           => LET feat == features'[r][loc[r].idx]
                  analysis == analyzeSimilarity(Description(features[r][loc[r].idx]),
                                                loc[r].userInputText)
              IN  /\ feat.similarity_source = "tfidf"
                  /\ feat.trace_score = analysis.score
                  /\ feat.trace_status = analysis.status ]_vars

\* The breaker has answered for a pair whose score is in the cache.
C37_Witness ==
    \E r \in Reqs :
        /\ pc[r] = "resume"
        /\ judgeCall[r].source = "circuit-breaker"
        /\ judgeCall[r].key \in DOMAIN judgeCache
        /\ Blocking

\* C40: every judge failure, also one that arrives while the breaker is
\* already tripped, adds 1 to failures and sets lastFailure to the current
\* time, and nothing else moves lastFailure; the breaker recovers only in a
\* step taken more than resetTime after that lastFailure, and recovery
\* resets failures to 0, so a failure arriving after it is failure 1.
C40_CooldownFromLastFailure ==
    [][ /\ circuitBreaker'.failures > circuitBreaker.failures =>
              /\ circuitBreaker'.failures = circuitBreaker.failures + 1
              /\ circuitBreaker'.lastFailure = now
              /\ circuitBreaker.tripped => circuitBreaker'.tripped
        /\ circuitBreaker'.lastFailure # circuitBreaker.lastFailure =>
              circuitBreaker'.failures > circuitBreaker.failures
        /\ (circuitBreaker.tripped /\ ~circuitBreaker'.tripped) =>
              /\ now - circuitBreaker.lastFailure > resetTime
              /\ circuitBreaker'.failures = 0 ]_vars

\* A call issued before the trip, with four failures counted, has failed
\* after the breaker recovered: it is failure 1 of the new period.
C40_Witness ==
    /\ ~circuitBreaker.tripped
    /\ circuitBreaker.failures = 1
    /\ \E r \in Reqs :
          /\ judgeCall[r].source = "error"
          /\ judgeCall[r].entryFailures = TripThreshold - 1

(***************************************************************************)
(* Frame of the drift loop, checked under Spec and SpecDrift               *)
(***************************************************************************)

\* The features of request r that carry trace fields.
Enriched(r) ==
    { i \in 1..Len(features[r]) : features[r][i].trace_status # Unset }

C39_AssumptionsUntouched ==
    /\ [][\A r \in Reqs :
             pc[r] \notin {"idle", "done"}
             => loc'[r].assumptions_made = loc[r].assumptions_made]_vars
    /\ [](\A r \in Reqs :
            /\ Len(loc[r].assumptions_made) <= MaxUpstream
            /\ result[r].returned
               => /\ result[r].assumption_count = Len(loc[r].assumptions_made)
                  /\ recomputeConfidence(
                         [NoConfIn.data EXCEPT
                             !.assumptions_made = loc[r].assumptions_made],
                         result[r]).assumption_penalty
                       = -Round(assumptionPenalty(result[r].assumption_count), 10))

\* A pass over a response with one upstream assumption returned with two
\* features classified 'assumption'.
C39_Witness ==
    \E r \in Reqs :
        /\ result[r].returned
        /\ Len(loc[r].assumptions_made) = 1
        /\ result[r].assumption_count = 1
        /\ Len(loc[r].assumptionAdditions) = 2

(***************************************************************************)
(* Audit sink and metric buffers, checked under SpecAudit                  *)
(***************************************************************************)

\* C32.  Audit sink failures do not propagate: insertAuditLog does not throw
\* when there is no SQLite handle or the insert fails, and the entry is then
\* the newest one of the in-memory fallback log; getAuditLog(id) returns the
\* entry of that id for as long as the fallback log holds it, and null for
\* an id that was never inserted.
C32_SinkFailuresAbsorbed ==
    /\ sinks.call.fn = "insertAuditLog"
           => /\ ~sinks.call.threw
              /\ sinks.call.failed
                     => /\ auditLog # <<>>
                        /\ auditLog[Len(auditLog)] = sinks.call.value
                        /\ sinks.call.value \notin sinks.rows
    /\ sinks.call.fn = "getAuditLog"
           => /\ ~sinks.call.threw
              /\ \A j \in 1..Len(auditLog) :
                     auditLog[j].id = sinks.call.id
                     => sinks.call.value = auditLog[j]
              /\ sinks.call.id \notin 1..sinks.issued
                     => sinks.call.value = NullEntry

\* With a SQLite handle whose insert threw, the entry went to a full
\* fallback log and is returned by a lookup whose select threw as well.
C32_Witness ==
    /\ sinks.db
    /\ sinks.call.fn = "getAuditLog"
    /\ sinks.call.id = sinks.issued
    /\ sinks.call.value = AuditEntry(sinks.issued)
    /\ sinks.rows = {}
    /\ Len(auditLog) = AUDIT_LOG_MAX
    /\ auditLog[1].id > 1

\* new is old with x appended, less the oldest element when that exceeds cap.
Slides(old, new, cap) ==
    /\ Len(new) = Min(cap, Len(old) + 1)
    /\ \A i \in 1..Len(new) :
           new[i] = Append(old, new[Len(new)])[i + (Len(old) + 1 - Len(new))]

\* C33.  The rolling windows are bounded after any sequence of appends: the
\* latency and confidence buffers never hold more than 1000 samples and the
\* fallback audit log never more than AUDIT_LOG_MAX entries; an append to a
\* full window drops the oldest element and keeps the order of the others.
C33_RollingWindows ==
    /\ [](/\ Len(sinks.latencies) <= LatencyWindow
          /\ Len(sinks.confidences) <= ConfidenceWindow
          /\ Len(auditLog) <= AUDIT_LOG_MAX)
    /\ [][/\ sinks'.latencies # sinks.latencies
              => Slides(sinks.latencies, sinks'.latencies, LatencyWindow)
          /\ sinks'.confidences # sinks.confidences
              => Slides(sinks.confidences, sinks'.confidences, ConfidenceWindow)
          /\ auditLog' # auditLog
              => Slides(auditLog, auditLog', AUDIT_LOG_MAX)]_vars

\* The latency buffer and the fallback log are full and each has dropped its
\* oldest element, the newest one being last.
C33_Witness ==
    /\ Len(sinks.latencies) = LatencyWindow
    /\ sinks.latencies[1] = 2
    /\ sinks.latencies[LatencyWindow] \in LatencySamples
    /\ Len(auditLog) = AUDIT_LOG_MAX
    /\ auditLog[1].id = 2
    /\ auditLog[AUDIT_LOG_MAX].id = AUDIT_LOG_MAX + 1

(***************************************************************************)
(* analyze.php: retries and the cache, checked under SpecProxy             *)
(***************************************************************************)

\* At most two upstream calls, the second only after a first that gave no
\* valid response; the cache holds validated results only; a cached entry
\* younger than CACHE_TTL is answered without an upstream call; two
\* failed attempts end in a 500.
RetryAndHit ==
    /\ Len(proxy.tries) <= 2
    /\ Len(proxy.tries) = 2 => proxy.tries[1] # "valid"
    /\ proxy.cache.exists => proxy.cache.data = "valid"
    /\ proxy.hit => proxy.tries = <<>>
    /\ proxy.pc = "done"
           => /\ (proxy.before.exists /\ proxy.age < CACHE_TTL)
                     => proxy.hit /\ proxy.status = 200 /\ proxy.tries = <<>>
              /\ proxy.status = 500
                     <=> /\ Len(proxy.tries) = 2
                         /\ proxy.tries[2] # "valid"

\* C31 as stated: a request that ends in a 500 after two failed attempts
\* leaves the cache as it found it.
C31_Original ==
    /\ RetryAndHit
    /\ (proxy.pc = "done" /\ proxy.status = 500) => proxy.cache = proxy.before

\* C31.  A request makes at most two upstream calls, the second only if the
\* first gave no response or one that fails parsing or schema validation;
\* only validated results are cached; a request whose two attempts fail ends
\* in a 500 and has written nothing to the cache, which is as the request
\* found it except that an entry older than CACHE_TTL was removed by the
\* lookup; a cached entry younger than CACHE_TTL is answered without an
\* upstream call.
C31_RetryAndCache ==
    /\ RetryAndHit
    /\ (proxy.pc = "done" /\ proxy.status = 500)
           => proxy.cache = IF proxy.before.exists /\ proxy.age > CACHE_TTL
                            THEN NoCacheFile
                            ELSE proxy.before

\* A request found an expired entry, failed twice and ended in a 500: the
\* expired entry is gone.
C31_Witness ==
    /\ proxy.pc = "done"
    /\ proxy.status = 500
    /\ proxy.before.exists
    /\ proxy.age > CACHE_TTL
    /\ ~proxy.cache.exists
    /\ Len(proxy.tries) = 2

(***************************************************************************)
(* engine.js: the clarify session, checked under SpecEngine                *)
(***************************************************************************)

\* The questions of the last round are the newest entries of
\* questions_asked, and no field occurs twice in it.
AskedOnce(asked, questions) ==
    /\ \A i, j \in 1..Len(asked) : asked[i] = asked[j] => i = j
    /\ Len(questions) <= Len(asked)
    /\ \A i \in 1..Len(questions) :
           questions[i] = asked[Len(asked) - Len(questions) + i]

\* C34.  The client-side clarify session terminates: after engineAnalyze,
\* the third engineClarify call at the latest returns completed: true with
\* no questions, whatever the answers; a round asks at most 3 questions,
\* none for a field that is filled or was asked before in the session;
\* engineClarify and engineGenerate throw 'No active session.' when no
\* engineAnalyze preceded them, and only then.
C34_ClarifyTerminates ==
    LET out == session.out
    IN  /\ (out.fn = "engineClarify" /\ ~out.threw /\ session.clarifies >= 3)
               => out.completed /\ out.questions = <<>>
        /\ (out.fn \in {"engineAnalyze", "engineClarify"} /\ ~out.threw)
               => /\ Len(out.questions) <= 3
                  /\ \A i \in 1..Len(out.questions) :
                         ~Truthy(session.s.filled_fields[out.questions[i]])
                  /\ AskedOnce(session.s.questions_asked, out.questions)
                  /\ out.completed <=> (out.fn = "engineClarify" /\ out.questions = <<>>)
        /\ out.fn \in {"engineClarify", "engineGenerate"}
               => /\ out.threw <=> ~session.s.active
                  /\ out.threw => out.message = "No active session."
        /\ out.fn = "engineAnalyze" => ~out.threw /\ session.s.active

\* The third engineClarify call of a session returned completed although a
\* required field is still unfilled and an earlier round had asked
\* questions.
C34_Witness ==
    /\ session.out.fn = "engineClarify"
    /\ ~session.out.threw
    /\ session.clarifies = 3
    /\ session.out.completed
    /\ session.s.round = 4
    /\ Len(session.s.questions_asked) > 3
    /\ \E i \in 1..Len(session.s.required_fields) :
           ~Truthy(session.s.filled_fields[session.s.required_fields[i]])

====
